---------------------------- MODULE Spec2Model ----------------------------
(***************************************************************************)
(* A model of the gb-emu hardware core: the PPU timing machine, the timer, *)
(* the interconnect's tick and interrupt latches, the MBC1 mapper and the  *)
(* CPU's interrupt / HALT / EI machinery.                                  *)
(*                                                                         *)
(* Each component is driven through its public operations.  The module     *)
(* holds several specifications over the same variables; each one drives   *)
(* one component (or one coupling of components) and leaves the rest in    *)
(* its constructed state.                                                  *)
(*                                                                         *)
(* The framebuffer is not part of the state: Ppu::render_scanline writes   *)
(* only the framebuffer and reads no timing state.                         *)
(***************************************************************************)
EXTENDS Integers, Sequences, FiniteSets, TLC

VARIABLES
    \* ---- Ppu (src/gb/ppu.rs) ----
    ly,                 \* current scanline
    scanline_cycles,    \* cycles into the current scanline
    mode,               \* Mode, as its discriminant
    lcdc,               \* LCDC register
    frame_ready,        \* latch read and cleared by the host
    framebuffer,        \* the pixels other than COLORS[0] by index, each as the
                        \* index of its colour in COLORS
    ppu_regs,           \* the registers stat, scy, scx, lyc, bgp, obp0, obp1, wy, wx
    \* ---- Timer (src/gb/timer.rs) ----
    div_counter, tima, tma, tac, tima_counter, interrupt_requested,
    \* ---- Interconnect (src/gb/interconnect.rs) ----
    if_register, ie_register,
    hram,               \* 0xFF80-0xFFFE, indexed from 0
    vram, wram, oam,    \* their non-zero bytes by index
    io_registers,       \* its bytes other than 0xFF by index
    \* ---- Joypad (src/gb/joypad.rs) ----
    direction_buttons, action_buttons, select,
    \* ---- Mbc1 (src/gb/mbc/mbc1.rs) ----
    cart_type,          \* rom[0x147]: 0 selects Mbc0, 1 to 3 select Mbc1
    rom_size_byte,      \* rom[0x148]
    ram_size_byte,      \* rom[0x149]
    rom_len,            \* length of the ROM image
    rom_seed,           \* which ROM image (see RomByte)
    rom_bank, ram_bank, ram_enabled, banking_mode,
    ram_size,           \* length of the external RAM
    ram,                \* the external RAM, its non-zero bytes by offset
    has_battery,
    \* ---- Cpu (src/gb/cpu/mod.rs) and GameBoy (src/gb/gameboy.rs) ----
    reg_pc, reg_sp, ime, ime_pending, halted,
    regs_af, regs_bc, regs_de, regs_hl,
    flags,              \* Flags, a record of z, n, h, c
    instruction_count,
    prog,               \* the opcodes the cartridge holds from 0x0100 on (see OpcodeAt)
    \* ---- observation of the last call ----
    op,                 \* name of the last operation
    arg,                \* its input (cartridge accesses: <<address, value>>)
    cpu_cycles,         \* T-cycles returned by the last CPU routine
    ret,                \* its return value
    \* ---- history ----
    elapsed,            \* T-cycles ticked through Interconnect::step so far
    frame_clock,        \* T-cycles the enabled PPU was stepped since LY 0 / cycle 0,
                        \* modulo the frame length
    passed,             \* the frame clock passed an instant of VBlank entry during
                        \* the last step
    since,              \* T-cycles ticked since a write left TIMA = 0xFF with the
                        \* timer enabled; -1: no such window is open
    ram_written,        \* the last write to external RAM made while RAM was enabled:
                        \* <<address, RAM bank, value, phase>>, phase 0: RAM enabled
                        \* ever since, 1: disabled since, 2: disabled and enabled
                        \* again since; <<>>: none
    halt_ret,           \* address following the last executed HALT; -1: none
    ei_at               \* instruction_count when the last EI had retired; -1: none

ppuVars   == <<ly, scanline_cycles, mode, lcdc, frame_ready, framebuffer, ppu_regs>>
timerVars == <<div_counter, tima, tma, tac, tima_counter, interrupt_requested>>
intVars   == <<if_register, ie_register>>
mbcVars   == <<cart_type, rom_size_byte, ram_size_byte, rom_len, rom_seed, rom_bank,
               ram_bank, ram_enabled, banking_mode, ram_size, ram, has_battery>>
busFixed  == <<frame_ready, framebuffer, interrupt_requested, cart_type, rom_size_byte, ram_size_byte,
               rom_len, rom_seed, ram_size, has_battery, ram_written>>
regVars   == <<regs_af, regs_bc, regs_de, regs_hl, flags>>
cpuVars   == <<reg_pc, reg_sp, ime, ime_pending, halted, regVars>>
memVars   == <<hram, vram, wram, oam, io_registers>>
joyVars   == <<direction_buttons, action_buttons, select>>
obsVars   == <<op, arg, cpu_cycles, ret>>
\* The state Interconnect::read and Interconnect::write work on
Bus ==
    [ly |-> ly, scanline_cycles |-> scanline_cycles, mode |-> mode, lcdc |-> lcdc,
     ppu_regs |-> ppu_regs,
     div_counter |-> div_counter, tima |-> tima, tma |-> tma, tac |-> tac,
     tima_counter |-> tima_counter,
     if_register |-> if_register, ie_register |-> ie_register,
     hram |-> hram, vram |-> vram, wram |-> wram, oam |-> oam,
     io_registers |-> io_registers,
     direction_buttons |-> direction_buttons, action_buttons |-> action_buttons,
     select |-> select,
     rom_bank |-> rom_bank, ram_bank |-> ram_bank, ram_enabled |-> ram_enabled,
     banking_mode |-> banking_mode, ram |-> ram]

\* The state b becomes the state of the bus
SetBus(b) ==
    /\ ly' = b.ly
    /\ scanline_cycles' = b.scanline_cycles
    /\ mode' = b.mode
    /\ lcdc' = b.lcdc
    /\ ppu_regs' = b.ppu_regs
    /\ div_counter' = b.div_counter
    /\ tima' = b.tima
    /\ tma' = b.tma
    /\ tac' = b.tac
    /\ tima_counter' = b.tima_counter
    /\ if_register' = b.if_register
    /\ ie_register' = b.ie_register
    /\ hram' = b.hram
    /\ vram' = b.vram
    /\ wram' = b.wram
    /\ oam' = b.oam
    /\ io_registers' = b.io_registers
    /\ direction_buttons' = b.direction_buttons
    /\ action_buttons' = b.action_buttons
    /\ select' = b.select
    /\ rom_bank' = b.rom_bank
    /\ ram_bank' = b.ram_bank
    /\ ram_enabled' = b.ram_enabled
    /\ banking_mode' = b.banking_mode
    /\ ram' = b.ram

vars == <<ppuVars, timerVars, intVars, memVars, joyVars, mbcVars, cpuVars, instruction_count,
          prog, obsVars, elapsed, frame_clock, passed, since, ram_written, halt_ret, ei_at>>

--------------------------------------------------------------------------
(* Bytes and bits *)

Pow2(n) == 2 ^ n

Bit(x, i) == (x \div Pow2(i)) % 2

RECURSIVE AndN(_, _, _)
AndN(x, y, n) ==
    IF n = 0 THEN 0
    ELSE (x % 2) * (y % 2) + 2 * AndN(x \div 2, y \div 2, n - 1)

\* x & y on 16-bit operands
And(x, y) == AndN(x, y, 16)

\* x | y
Or(x, y) == x + y - And(x, y)

\* x & !m on a byte
AndNot(x, m) == x - And(x, m)

\* vec![0; n] and vec![0xFF; n], no byte differing from the fill
NoBytes == [i \in {} |-> 0]

\* v[i] of a vector kept as its bytes other than fill
VecGet(v, i, fill) == IF i \in DOMAIN v THEN v[i] ELSE fill

\* v[i] = data
VecSet(v, i, data, fill) ==
    [q \in (DOMAIN v \cup {i}) \ (IF data = fill THEN {i} ELSE {}) |->
        IF q = i THEN data ELSE v[q]]

--------------------------------------------------------------------------
(* Ppu *)

CYCLES_PER_SCANLINE == 456
SCANLINES_PER_FRAME == 154
VBLANK_START == 144
OAM_SCAN_END == 80
DRAWING_END == 252

HBlank == 0
VBlank == 1
OamScan == 2
Drawing == 3

\* Ppu::lcd_enabled
lcd_enabled(l) == Bit(l, 7) = 1

\* The mutation of EnteredVBlank that latches on every line inside VBlank.
EnteredVBlankEveryLine(new_ly, prev_ly) == new_ly >= VBLANK_START

\* Ppu::step, the test after LY is advanced: VBlank was just entered
EnteredVBlank(new_ly, prev_ly) == new_ly = VBLANK_START /\ prev_ly # VBLANK_START

\* The mutation of update_mode whose OAM scan lasts one cycle longer.
update_mode_late(l, sc) ==
    IF l >= VBLANK_START THEN VBlank
    ELSE IF sc <= OAM_SCAN_END THEN OamScan
    ELSE IF sc < DRAWING_END THEN Drawing
    ELSE HBlank

\* Ppu::update_mode
update_mode(l, sc) ==
    IF l >= VBLANK_START THEN VBlank
    ELSE IF sc < OAM_SCAN_END THEN OamScan
    ELSE IF sc < DRAWING_END THEN Drawing
    ELSE HBlank

SCREEN_WIDTH == 160
SCREEN_HEIGHT == 144

\* Ppu::bg_enabled, Ppu::window_enabled, Ppu::sprites_enabled
bg_enabled(l) == Bit(l, 0) = 1
window_enabled(l) == Bit(l, 5) = 1
sprites_enabled(l) == Bit(l, 1) = 1

\* render_bg_scanline and render_window_scanline, tile_data_addr: with LCDC
\* bit 4 clear the i16 sum 0x0800 + 0x800 + signed_index * 16, else the
\* unsigned tile_index * 16.  The sum stays inside i16; a negative sum would
\* convert to an index beyond any slice.
TileDataAddr(l, tile_index) ==
    IF Bit(l, 4) = 0
    THEN 2048 + 2048 + (IF tile_index >= 128 THEN tile_index - 256 ELSE tile_index) * 16
    ELSE tile_index * 16

\* (color_high << 1) | color_low of the pixel `bit` of the tile row at addr
ColorIndex(v, addr, bit) ==
    Bit(VecGet(v, addr + 1, 0), bit) * 2 + Bit(VecGet(v, addr, 0), bit)

\* (palette >> (color_index * 2)) & 0x03
PaletteColor(palette, color_index) == (palette \div Pow2(color_index * 2)) % 4

\* The mutation of BgMapAddr that does not wrap the map row at 256.
BgMapAddrUnwrapped(b, line, x) ==
    (IF Bit(b.lcdc, 3) = 1 THEN 7168 ELSE 6144)
    + ((line + b.ppu_regs.scy) \div 8) * 32
    + ((x + b.ppu_regs.scx) % 256) \div 8

\* render_bg_scanline, tile_map_addr of the pixel x of the line
BgMapAddr(b, line, x) ==
    (IF Bit(b.lcdc, 3) = 1 THEN 7168 ELSE 6144)
    + (((line + b.ppu_regs.scy) % 256) \div 8) * 32
    + ((x + b.ppu_regs.scx) % 256) \div 8

\* render_bg_scanline, the index of byte1 of the pixel x of the line
BgDataAddr(b, line, x) ==
    TileDataAddr(b.lcdc, VecGet(b.vram, BgMapAddr(b, line, x), 0))
    + (((line + b.ppu_regs.scy) % 256) % 8) * 2

\* render_bg_scanline, the index in COLORS of the pixel x of the line
BgPixel(b, line, x) ==
    PaletteColor(b.ppu_regs.bgp,
                 ColorIndex(b.vram, BgDataAddr(b, line, x),
                            7 - (((x + b.ppu_regs.scx) % 256) % 8)))

\* render_window_scanline, window_x_start
WindowXStart(b) == IF b.ppu_regs.wx - 7 > 0 THEN b.ppu_regs.wx - 7 ELSE 0

\* render_scanline and render_window_scanline: the window is drawn on the
\* pixel x of the line
WindowCovers(b, line, x) ==
    /\ window_enabled(b.lcdc)
    /\ line >= b.ppu_regs.wy
    /\ WindowXStart(b) < SCREEN_WIDTH
    /\ x >= WindowXStart(b)

\* render_window_scanline, tile_map_addr of the pixel x of the line
WindowMapAddr(b, line, x) ==
    (IF Bit(b.lcdc, 6) = 1 THEN 7168 ELSE 6144)
    + ((line - b.ppu_regs.wy) \div 8) * 32
    + (x - WindowXStart(b)) \div 8

\* render_window_scanline, the index of byte1 of the pixel x of the line
WindowDataAddr(b, line, x) ==
    TileDataAddr(b.lcdc, VecGet(b.vram, WindowMapAddr(b, line, x), 0))
    + ((line - b.ppu_regs.wy) % 8) * 2

\* render_window_scanline, the index in COLORS of the pixel x of the line
WindowPixel(b, line, x) ==
    PaletteColor(b.ppu_regs.bgp,
                 ColorIndex(b.vram, WindowDataAddr(b, line, x),
                            7 - ((x - WindowXStart(b)) % 8)))

\* render_sprites_scanline: sprite_height, and sprite_y and sprite_x of the
\* OAM entry i
SpriteHeight(b) == IF Bit(b.lcdc, 2) = 1 THEN 16 ELSE 8
SpriteY(b, i) == VecGet(b.oam, i * 4, 0) - 16
SpriteX(b, i) == VecGet(b.oam, i * 4 + 1, 0) - 8

\* The OAM entries whose rows include the line
SpritesIntersecting(b, line) ==
    {i \in 0..39 : line >= SpriteY(b, i) /\ line < SpriteY(b, i) + SpriteHeight(b)}

\* The mutation of SpritesCollected that keeps every intersecting entry.
SpritesCollectedAll(b, line) == SpritesIntersecting(b, line)

\* render_sprites_scanline, the entries pushed before the loop breaks at 10
SpritesCollected(b, line) ==
    LET on == SpritesIntersecting(b, line)
    IN  {i \in on : Cardinality({j \in on : j < i}) < 10}

\* render_sprites_scanline, sprite_row of the entry i on the line
SpriteRow(b, line, i) ==
    IF Bit(VecGet(b.oam, i * 4 + 3, 0), 6) = 1
    THEN SpriteHeight(b) - 1 - (line - SpriteY(b, i))
    ELSE line - SpriteY(b, i)

\* render_sprites_scanline, tile_data_addr of the entry i on the line
\* (tile_index | 1 and tile_index & 0xFE by arithmetic)
SpriteDataAddr(b, line, i) ==
    LET tile_index == VecGet(b.oam, i * 4 + 2, 0)
        sprite_row == SpriteRow(b, line, i)
        actual_tile == IF SpriteHeight(b) = 16
                       THEN IF sprite_row >= 8 THEN (tile_index \div 2) * 2 + 1
                            ELSE (tile_index \div 2) * 2
                       ELSE tile_index
    IN  actual_tile * 16 + (sprite_row % 8) * 2

\* render_sprites_scanline, what the loop over the pixels of the entry i
\* works on: sprite_x, the attributes, the palette and the two bytes of the
\* tile row
SpriteFetched(b, line, i) ==
    LET attributes == VecGet(b.oam, i * 4 + 3, 0)
        addr == SpriteDataAddr(b, line, i)
    IN  [idx |-> i, sprite_x |-> SpriteX(b, i), attributes |-> attributes,
         palette |-> IF Bit(attributes, 4) = 1 THEN b.ppu_regs.obp1 ELSE b.ppu_regs.obp0,
         byte1 |-> VecGet(b.vram, addr, 0), byte2 |-> VecGet(b.vram, addr + 1, 0)]

\* sprites_on_line after the stable sort_by on sprite_x, each entry with
\* what its pixel loop works on
sprites_on_line(b, line) ==
    LET c == SpritesCollected(b, line)
        earlier(i) == {j \in c : \/ SpriteX(b, j) < SpriteX(b, i)
                                 \/ SpriteX(b, j) = SpriteX(b, i) /\ j < i}
    IN  [k \in 1..Cardinality(c) |->
            SpriteFetched(b, line, CHOOSE i \in c : Cardinality(earlier(i)) = k - 1)]

\* render_sprites_scanline, color_index of the fetched entry s at the pixel
\* x of the line; 0 where the entry does not reach x
SpriteColorIndex(s, x) ==
    LET pixel_x == x - s.sprite_x
        bit == IF Bit(s.attributes, 5) = 1 THEN pixel_x ELSE 7 - pixel_x
    IN  IF pixel_x < 0 \/ pixel_x > 7 THEN 0
        ELSE Bit(s.byte2, bit) * 2 + Bit(s.byte1, bit)

\* render_sprites_scanline, the pixel x of the line after the fetched entry
\* s was drawn over the colour pix
SpriteDrawn(s, x, pix) ==
    LET color_index == SpriteColorIndex(s, x)
    IN  IF color_index = 0 THEN pix
        ELSE IF Bit(s.attributes, 7) = 1 /\ pix # 0 THEN pix
        ELSE PaletteColor(s.palette, color_index)

\* render_sprites_scanline, the loop over sprites_on_line.iter().rev() from
\* its entry k down to the first
RECURSIVE SpritesDrawn(_, _, _, _)
SpritesDrawn(order, k, x, pix) ==
    IF k = 0 THEN pix
    ELSE SpritesDrawn(order, k - 1, x, SpriteDrawn(order[k], x, pix))

\* The value of a set of one value
TheOnly(S) == CHOOSE r \in S : TRUE

\* Ppu::render_scanline: the indexes in COLORS of the 160 pixels of the line
render_scanline(b, line) ==
    LET under(x) == IF WindowCovers(b, line, x) THEN WindowPixel(b, line, x)
                    ELSE IF bg_enabled(b.lcdc) THEN BgPixel(b, line, x)
                    ELSE 0
    IN  IF sprites_enabled(b.lcdc)
        THEN TheOnly({[x \in 0..(SCREEN_WIDTH - 1) |->
                          SpritesDrawn(order, Len(order), x, under(x))] :
                      order \in {sprites_on_line(b, line)}})
        ELSE [x \in 0..(SCREEN_WIDTH - 1) |-> under(x)]

\* With VRAM and OAM all zero and colour index 0 of BGP mapped to COLORS[0],
\* render_scanline draws COLORS[0] on every pixel: the background and the
\* window read tile 0 and colour index 0, and no OAM entry includes a line
\* (sprite_y is -16).
RendersBlank(b) ==
    /\ DOMAIN b.vram = {}
    /\ DOMAIN b.oam = {}
    /\ b.ppu_regs.bgp % 4 = 0

\* Ppu::step, the framebuffer after render_scanline ran on the lines; the
\* registers and the memories do not change during a step, so a line
\* rendered more than once is drawn the same each time
FramebufferAfter(b, fb, lines) ==
    LET kept == {j \in DOMAIN fb : j \div SCREEN_WIDTH \notin lines}
        drawn == {l * SCREEN_WIDTH + x : l \in lines, x \in 0..(SCREEN_WIDTH - 1)}
    IN  IF lines = {} THEN fb
        ELSE IF RendersBlank(b) THEN [j \in kept |-> fb[j]]
        ELSE TheOnly({[j \in kept \cup {q \in drawn :
                                          rows[q \div SCREEN_WIDTH][q % SCREEN_WIDTH] # 0} |->
                          IF j \div SCREEN_WIDTH \in lines
                          THEN rows[j \div SCREEN_WIDTH][j % SCREEN_WIDTH]
                          ELSE fb[j]] :
                      rows \in {[l \in lines |-> render_scanline(b, l)]}})

\* The mutation of ScanlineLoop that completes at most one scanline per step.
ScanlineLoopOnce(l, sc) ==
    LET n == IF sc >= CYCLES_PER_SCANLINE THEN 1 ELSE 0
    IN  [ly |-> (l + n) % SCANLINES_PER_FRAME,
         scanline_cycles |-> sc - n * CYCLES_PER_SCANLINE,
         rendered |-> {(l + i - 1) % SCANLINES_PER_FRAME : i \in 1..n}
                          \cap (0..(VBLANK_START - 1)),
         entered_vblank |->
             \E i \in 1..n : EnteredVBlank((l + i) % SCANLINES_PER_FRAME,
                                           (l + i - 1) % SCANLINES_PER_FRAME)]

\* Ppu::step, the loop over completed scanlines: it runs once per completed
\* scanline, and its i-th pass moves LY from (l + i - 1) % 154 to (l + i) % 154
\* and tests EnteredVBlank on the pair.  The result is the PPU position and
\* the value returned.
ScanlineLoop(l, sc) ==
    LET n == sc \div CYCLES_PER_SCANLINE
    IN  [ly |-> (l + n) % SCANLINES_PER_FRAME,
         scanline_cycles |-> sc - n * CYCLES_PER_SCANLINE,
         rendered |-> {(l + i - 1) % SCANLINES_PER_FRAME : i \in 1..n}
                          \cap (0..(VBLANK_START - 1)),
         entered_vblank |->
             \E i \in 1..n : EnteredVBlank((l + i) % SCANLINES_PER_FRAME,
                                           (l + i - 1) % SCANLINES_PER_FRAME)]

\* Ppu::step as a function of the PPU state and the cycle count
PpuStepped(cycles) ==
    IF ~lcd_enabled(lcdc)
    THEN [ly |-> ly, scanline_cycles |-> scanline_cycles, mode |-> mode,
          frame_ready |-> frame_ready, framebuffer |-> framebuffer,
          entered_vblank |-> FALSE]
    ELSE LET r == ScanlineLoop(ly, scanline_cycles + cycles)
         IN  [ly |-> r.ly, scanline_cycles |-> r.scanline_cycles,
              mode |-> update_mode(r.ly, r.scanline_cycles),
              frame_ready |-> (frame_ready \/ r.entered_vblank),
              framebuffer |-> FramebufferAfter(Bus, framebuffer, r.rendered),
              entered_vblank |-> r.entered_vblank]

\* Ppu::new
PpuInit ==
    /\ ly = 0
    /\ scanline_cycles = 0
    /\ mode = OamScan
    /\ lcdc = 145
    /\ frame_ready = FALSE
    /\ framebuffer = NoBytes
    /\ ppu_regs = [stat |-> 0, scy |-> 0, scx |-> 0, lyc |-> 0, bgp |-> 252,
                   obp0 |-> 255, obp1 |-> 255, wy |-> 0, wx |-> 0]

\* The mutation of write_lcdc that only stores the value.
write_lcdc_stored(p, val) == [p EXCEPT !.lcdc = val]

\* The mutation of write_lcdc that resets LY but keeps the accumulator.
write_lcdc_keeps_cycles(p, val) ==
    IF lcd_enabled(p.lcdc) /\ ~lcd_enabled(val)
    THEN [p EXCEPT !.lcdc = val, !.ly = 0, !.mode = HBlank]
    ELSE [p EXCEPT !.lcdc = val]

\* Ppu::write_lcdc on the state p
write_lcdc(p, val) ==
    IF lcd_enabled(p.lcdc) /\ ~lcd_enabled(val)
    THEN [p EXCEPT !.lcdc = val, !.ly = 0, !.scanline_cycles = 0, !.mode = HBlank]
    ELSE [p EXCEPT !.lcdc = val]

\* Ppu::write_lcdc
WriteLcdcTo(val) == write_lcdc(Bus, val)

\* The mutation of Ppu::read that leaves the mode out of STAT.
PpuReadStatNoMode(p, addr) ==
    CASE addr = 65344 -> p.lcdc
      [] addr = 65345 -> Or(And(p.ppu_regs.stat, 248),
                            IF p.ly = p.ppu_regs.lyc THEN 4 ELSE 0)
      [] addr = 65346 -> p.ppu_regs.scy
      [] addr = 65347 -> p.ppu_regs.scx
      [] addr = 65348 -> p.ly
      [] addr = 65349 -> p.ppu_regs.lyc
      [] addr = 65351 -> p.ppu_regs.bgp
      [] addr = 65352 -> p.ppu_regs.obp0
      [] addr = 65353 -> p.ppu_regs.obp1
      [] addr = 65354 -> p.ppu_regs.wy
      [] addr = 65355 -> p.ppu_regs.wx
      [] OTHER -> 255

\* Ppu::read on the state p
PpuRead(p, addr) ==
    CASE addr = 65344 -> p.lcdc
      [] addr = 65345 -> Or(Or(And(p.ppu_regs.stat, 248),
                               IF p.ly = p.ppu_regs.lyc THEN 4 ELSE 0), p.mode)
      [] addr = 65346 -> p.ppu_regs.scy
      [] addr = 65347 -> p.ppu_regs.scx
      [] addr = 65348 -> p.ly
      [] addr = 65349 -> p.ppu_regs.lyc
      [] addr = 65351 -> p.ppu_regs.bgp
      [] addr = 65352 -> p.ppu_regs.obp0
      [] addr = 65353 -> p.ppu_regs.obp1
      [] addr = 65354 -> p.ppu_regs.wy
      [] addr = 65355 -> p.ppu_regs.wx
      [] OTHER -> 255

\* Ppu::write on the state p
PpuWrite(p, addr, val) ==
    CASE addr = 65344 -> write_lcdc(p, val)
      [] addr = 65345 ->
            [p EXCEPT !.ppu_regs.stat = Or(And(p.ppu_regs.stat, 7), And(val, 120))]
      [] addr = 65346 -> [p EXCEPT !.ppu_regs.scy = val]
      [] addr = 65347 -> [p EXCEPT !.ppu_regs.scx = val]
      [] addr = 65349 -> [p EXCEPT !.ppu_regs.lyc = val]
      [] addr = 65351 -> [p EXCEPT !.ppu_regs.bgp = val]
      [] addr = 65352 -> [p EXCEPT !.ppu_regs.obp0 = val]
      [] addr = 65353 -> [p EXCEPT !.ppu_regs.obp1 = val]
      [] addr = 65354 -> [p EXCEPT !.ppu_regs.wy = val]
      [] addr = 65355 -> [p EXCEPT !.ppu_regs.wx = val]
      [] OTHER -> p

\* One frame and the instant of VBlank entry inside it, in T-cycles
\* (main.rs: CYCLES_PER_FRAME = 70224).
CYCLES_PER_FRAME == CYCLES_PER_SCANLINE * SCANLINES_PER_FRAME
VBlankEntryCycle == VBLANK_START * CYCLES_PER_SCANLINE

\* The frame clock after `cycles` more cycles of an enabled PPU.
ClockAfter(cycles) ==
    IF lcd_enabled(lcdc) THEN (frame_clock + cycles) % CYCLES_PER_FRAME
    ELSE frame_clock

\* Stepping `cycles` from frame clock `t` passes an instant of VBlank entry.
PassesVBlankEntry(t, cycles) ==
    \E k \in 0..(cycles \div CYCLES_PER_FRAME + 1) :
        /\ t < VBlankEntryCycle + k * CYCLES_PER_FRAME
        /\ VBlankEntryCycle + k * CYCLES_PER_FRAME <= t + cycles

--------------------------------------------------------------------------
(* Timer *)

\* The mutation of TimerClock that swaps the periods of clock-selects 01 and 10.
TimerClockSwapped(clock_select) ==
    CASE clock_select = 0 -> 1024
      [] clock_select = 1 -> 64
      [] clock_select = 2 -> 16
      [] clock_select = 3 -> 256

\* TIMER_CLOCKS
TimerClock(clock_select) ==
    CASE clock_select = 0 -> 1024
      [] clock_select = 1 -> 16
      [] clock_select = 2 -> 64
      [] clock_select = 3 -> 256

\* Timer::step, the loop over elapsed TIMA periods
RECURSIVE TimaLoop(_, _, _, _)
TimaLoop(counter, t, irq, threshold) ==
    IF counter >= threshold
    THEN IF t = 255
         THEN TimaLoop(counter - threshold, tma, TRUE, threshold)
         ELSE TimaLoop(counter - threshold, t + 1, irq, threshold)
    ELSE [tima_counter |-> counter, tima |-> t, interrupt_requested |-> irq]

\* Timer::step as a function of the timer state and the cycle count
TimerStepped(cycles) ==
    LET d == (div_counter + (cycles % 65536)) % 65536
    IN  IF And(tac, 4) # 0
        THEN LET r == TimaLoop(tima_counter + cycles, tima, interrupt_requested,
                               TimerClock(And(tac, 3)))
             IN  [div_counter |-> d, tima_counter |-> r.tima_counter,
                  tima |-> r.tima, interrupt_requested |-> r.interrupt_requested]
        ELSE [div_counter |-> d, tima_counter |-> tima_counter,
              tima |-> tima, interrupt_requested |-> interrupt_requested]

\* Timer::read on the state t
TimerRead(t, address) ==
    CASE address = 65284 -> t.div_counter \div 256
      [] address = 65285 -> t.tima
      [] address = 65286 -> t.tma
      [] address = 65287 -> Or(t.tac, 248)
      [] OTHER -> 255

\* The mutation of Timer::write that clears only the visible byte of the
\* divider.
TimerWriteDivHigh(t, address, val) ==
    CASE address = 65284 -> [t EXCEPT !.div_counter = t.div_counter % 256]
      [] address = 65285 -> [t EXCEPT !.tima = val]
      [] address = 65286 -> [t EXCEPT !.tma = val]
      [] address = 65287 ->
            [t EXCEPT !.tima_counter =
                          IF And(t.tac, 3) # And(val, 3) THEN 0 ELSE t.tima_counter,
                      !.tac = And(val, 7)]
      [] OTHER -> t

\* The mutation of Timer::write that clears the accumulator when any of the
\* three bits of TAC changes.
TimerWriteTacAnyBit(t, address, val) ==
    CASE address = 65284 -> [t EXCEPT !.div_counter = 0]
      [] address = 65285 -> [t EXCEPT !.tima = val]
      [] address = 65286 -> [t EXCEPT !.tma = val]
      [] address = 65287 ->
            [t EXCEPT !.tima_counter =
                          IF And(t.tac, 7) # And(val, 7) THEN 0 ELSE t.tima_counter,
                      !.tac = And(val, 7)]
      [] OTHER -> t

\* The mutation of Timer::write that never clears the accumulator.
TimerWriteTacKeeps(t, address, val) ==
    CASE address = 65284 -> [t EXCEPT !.div_counter = 0]
      [] address = 65285 -> [t EXCEPT !.tima = val]
      [] address = 65286 -> [t EXCEPT !.tma = val]
      [] address = 65287 -> [t EXCEPT !.tac = And(val, 7)]
      [] OTHER -> t

\* Timer::write on the state t
TimerWrite(t, address, val) ==
    CASE address = 65284 -> [t EXCEPT !.div_counter = 0]
      [] address = 65285 -> [t EXCEPT !.tima = val]
      [] address = 65286 -> [t EXCEPT !.tma = val]
      [] address = 65287 ->
            [t EXCEPT !.tima_counter =
                          IF And(t.tac, 3) # And(val, 3) THEN 0 ELSE t.tima_counter,
                      !.tac = And(val, 7)]
      [] OTHER -> t

\* Timer::write as a function of the timer state
TimerWritten(address, val) == TimerWrite(Bus, address, val)

\* Timer::new
TimerInit ==
    /\ div_counter = 0
    /\ tima = 0
    /\ tma = 0
    /\ tac = 0
    /\ tima_counter = 0
    /\ interrupt_requested = FALSE

--------------------------------------------------------------------------
(* Interconnect: interrupt latches and tick *)

INT_VBLANK == 1
INT_STAT == 2
INT_TIMER == 4
INT_SERIAL == 8
INT_JOYPAD == 16

\* Interconnect::pending_interrupts
pending_interrupts == And(And(if_register, ie_register), 31)

\* The mutation of IfAfterStep that requests VBlank on every tick that starts
\* inside VBlank.
IfAfterStepInsideVBlank(ifr, timer_irq, entered_vblank) ==
    LET a == IF timer_irq THEN Or(ifr, INT_TIMER) ELSE ifr
    IN  IF entered_vblank \/ ly >= VBLANK_START THEN Or(a, INT_VBLANK) ELSE a

\* Interconnect::step, the IF register after the PPU and the timer were stepped
IfAfterStep(ifr, timer_irq, entered_vblank) ==
    LET a == IF timer_irq THEN Or(ifr, INT_TIMER) ELSE ifr
    IN  IF entered_vblank THEN Or(a, INT_VBLANK) ELSE a

\* The measuring window after `cycles` more ticked cycles; it closes once it
\* is longer than the longest TIMA period.
WindowAfter(cycles) ==
    IF since < 0 \/ since + cycles > TimerClock(0) THEN -1 ELSE since + cycles

\* Interconnect::step
BusStep(cycles) ==
    LET p == PpuStepped(cycles)
        t == TimerStepped(cycles)
    IN  /\ ly' = p.ly
        /\ scanline_cycles' = p.scanline_cycles
        /\ mode' = p.mode
        /\ frame_ready' = p.frame_ready
        /\ framebuffer' = p.framebuffer
        /\ lcdc' = lcdc
        /\ div_counter' = t.div_counter
        /\ tima_counter' = t.tima_counter
        /\ tima' = t.tima
        /\ interrupt_requested' = FALSE
        /\ UNCHANGED <<tma, tac, ppu_regs>>
        /\ if_register' = IfAfterStep(if_register, t.interrupt_requested, p.entered_vblank)
        /\ ie_register' = ie_register
        /\ elapsed' = elapsed + cycles
        /\ frame_clock' = ClockAfter(cycles)
        /\ passed' = (lcd_enabled(lcdc) /\ PassesVBlankEntry(frame_clock, cycles))
        /\ since' = WindowAfter(cycles)
        /\ op' = "tick"
        /\ ret' = 0
        /\ UNCHANGED <<memVars, joyVars, mbcVars, ram_written, cpuVars, instruction_count, prog, cpu_cycles,
                       halt_ret, ei_at, arg>>

\* Joypad::new
JoypadInit ==
    /\ direction_buttons = 15
    /\ action_buttons = 15
    /\ select = 48

\* Interconnect::new, the interrupt registers, the memories and the joypad
IntInit ==
    /\ if_register = 224
    /\ ie_register = 0
    /\ hram = [i \in 0..126 |-> 0]
    /\ vram = NoBytes
    /\ wram = NoBytes
    /\ oam = NoBytes
    /\ io_registers = NoBytes
    /\ JoypadInit

--------------------------------------------------------------------------
(* Mbc1 *)

\* The ROM image: a family of images indexed by rom_seed whose banks differ
\* in every byte; the bytes at 0x0147, 0x0148 and 0x0149 are the cartridge
\* type, the ROM size and the RAM size of the header.
RomByte(offset) ==
    IF offset = 327 THEN cart_type
    ELSE IF offset = 328 THEN rom_size_byte
    ELSE IF offset = 329 THEN ram_size_byte
    ELSE ((offset \div 16384) * 7 + offset + rom_seed) % 256

\* rom.get(physical).copied().unwrap_or(0xFF)
RomGet(physical) == IF physical < rom_len THEN RomByte(physical) ELSE 255

\* The mutation of effective_rom_bank that leaves out the bank-0 quirk.
effective_rom_bank_unquirked ==
    IF banking_mode = 0 THEN Or(And(rom_bank, 31), (ram_bank * 32) % 256)
    ELSE And(rom_bank, 31)

\* Mbc1::effective_rom_bank on the state m
effective_rom_bank_of(m) ==
    LET bank == IF m.banking_mode = 0
                THEN Or(And(m.rom_bank, 31), (m.ram_bank * 32) % 256)
                ELSE And(m.rom_bank, 31)
    IN  IF And(bank, 31) = 0 THEN Or(bank, 1) ELSE bank

\* Mbc1::effective_rom_bank
effective_rom_bank == effective_rom_bank_of(Bus)

\* The mutation of SwitchablePhysical that does not rebase the address.
SwitchablePhysicalUnrebased(bank, addr) == bank * 16384 + addr

\* Mbc1::read, the physical offset of an address of the switchable window
SwitchablePhysical(bank, addr) == bank * 16384 + (addr - 16384)

\* vec![0; ram_size]
EmptyRam == [q \in {} |-> 0]

\* ram.get(physical).copied().unwrap_or(0xFF) over a RAM r of ram_size bytes
RamGet(r, physical) ==
    IF physical >= ram_size THEN 255
    ELSE IF physical \in DOMAIN r THEN r[physical] ELSE 0

\* ram[physical] = val
RamSet(r, physical, val) ==
    [q \in (DOMAIN r \cup {physical}) \ (IF val = 0 THEN {physical} ELSE {}) |->
        IF q = physical THEN val ELSE r[q]]

\* Mbc1::effective_ram_bank on the state m
effective_ram_bank_of(m) == IF m.banking_mode = 1 THEN m.ram_bank ELSE 0

\* Mbc1::effective_ram_bank
effective_ram_bank == effective_ram_bank_of(Bus)

\* Mbc1::read and Mbc1::write, the physical offset of an external-RAM address
RamPhysical(addr) == effective_ram_bank * 8192 + (addr - 40960)

\* The mutation of Mbc1Read that reads 0x0000-0x3FFF from bank 0 in both modes.
Mbc1ReadLowFixed(addr) ==
    IF addr <= 16383
    THEN RomGet(addr)
    ELSE IF addr <= 32767
    THEN RomGet(SwitchablePhysical(effective_rom_bank, addr))
    ELSE IF addr >= 40960 /\ addr <= 49151
    THEN IF ~ram_enabled \/ ram_size = 0 THEN 255
         ELSE RamGet(ram, RamPhysical(addr))
    ELSE 255

\* The mutation of Mbc1Read that reads the external RAM whether or not it is
\* enabled.
Mbc1ReadRamAlways(addr) ==
    IF addr <= 16383
    THEN RomGet(IF banking_mode = 1 THEN (ram_bank * 32) * 16384 + addr ELSE addr)
    ELSE IF addr <= 32767
    THEN RomGet(SwitchablePhysical(effective_rom_bank, addr))
    ELSE IF addr >= 40960 /\ addr <= 49151
    THEN IF ram_size = 0 THEN 255 ELSE RamGet(ram, RamPhysical(addr))
    ELSE 255

\* Mbc1::read on the state m
Mbc1ReadOf(m, addr) ==
    IF addr <= 16383
    THEN RomGet(IF m.banking_mode = 1 THEN (m.ram_bank * 32) * 16384 + addr ELSE addr)
    ELSE IF addr <= 32767
    THEN RomGet(SwitchablePhysical(effective_rom_bank_of(m), addr))
    ELSE IF addr >= 40960 /\ addr <= 49151
    THEN IF ~m.ram_enabled \/ ram_size = 0 THEN 255
         ELSE RamGet(m.ram, effective_ram_bank_of(m) * 8192 + (addr - 40960))
    ELSE 255

\* Mbc1::read
Mbc1Read(addr) == Mbc1ReadOf(Bus, addr)

\* Mbc1::write on the state m
Mbc1WriteTo(m, addr, val) ==
    LET physical == effective_ram_bank_of(m) * 8192 + (addr - 40960)
    IN  IF addr <= 8191 THEN [m EXCEPT !.ram_enabled = (And(val, 15) = 10)]
        ELSE IF addr <= 16383 THEN [m EXCEPT !.rom_bank = And(val, 31)]
        ELSE IF addr <= 24575 THEN [m EXCEPT !.ram_bank = And(val, 3)]
        ELSE IF addr <= 32767 THEN [m EXCEPT !.banking_mode = And(val, 1)]
        ELSE IF addr >= 40960 /\ addr <= 49151
        THEN IF ~m.ram_enabled \/ ram_size = 0 THEN m
             ELSE IF physical < ram_size
             THEN [m EXCEPT !.ram = RamSet(m.ram, physical, val)]
             ELSE m
        ELSE m

\* Mbc1::write
Mbc1Written(addr, val) == Mbc1WriteTo(Bus, addr, val)

\* The mutation of Mbc0::read that wraps an offset beyond the image.
Mbc0ReadWrapped(addr) == IF addr <= 32767 THEN RomByte(addr % rom_len) ELSE 255

\* Mbc0::read
Mbc0Read(addr) == IF addr <= 32767 THEN RomGet(addr) ELSE 255

\* Cartridge::read on the state m: Mbc0::read or Mbc1::read
CartridgeRead(m, addr) ==
    IF cart_type = 0 THEN Mbc0Read(addr) ELSE Mbc1ReadOf(m, addr)

\* Cartridge::write on the state m: Mbc0::write (ignored) or Mbc1::write
CartridgeWrite(m, addr, val) ==
    IF cart_type = 0 THEN m ELSE Mbc1WriteTo(m, addr, val)

\* The mutation of LoadData that restores the low half of the image only and
\* clears the rest of the RAM.
LoadDataLowHalf(data) ==
    IF has_battery
    THEN LET len == (IF data.len < ram_size THEN data.len ELSE ram_size) \div 2
         IN  [q \in {p \in DOMAIN data.bytes : p < len} |-> data.bytes[q]]
    ELSE ram

\* Mbc1::save_data: the length of the returned vector and its non-zero bytes
SaveData ==
    IF has_battery THEN [len |-> ram_size, bytes |-> ram]
    ELSE [len |-> 0, bytes |-> EmptyRam]

\* Mbc1::load_data, the RAM it leaves
LoadData(data) ==
    IF has_battery
    THEN LET len == IF data.len < ram_size THEN data.len ELSE ram_size
         IN  [q \in {p \in DOMAIN data.bytes : p < len}
                     \cup {p \in DOMAIN ram : p >= len} |->
                 IF q < len THEN data.bytes[q] ELSE ram[q]]
    ELSE ram

\* parse_ram_size
parse_ram_size(code) ==
    CASE code = 0 -> 0
      [] code = 1 -> 2 * 1024
      [] code = 2 -> 8 * 1024
      [] code = 3 -> 32 * 1024
      [] code = 4 -> 128 * 1024
      [] code = 5 -> 64 * 1024
      [] OTHER -> 0

\* is_battery_backed
is_battery_backed(type) == type \in {3, 6, 9, 13, 15, 16, 19, 27, 30}

\* Mbc0::new for an image of len bytes
Mbc0Init(len, seed) ==
    /\ cart_type = 0
    /\ rom_size_byte = 0
    /\ ram_size_byte = 0
    /\ rom_len = len
    /\ rom_seed = seed
    /\ rom_bank = 1
    /\ ram_bank = 0
    /\ ram_enabled = FALSE
    /\ banking_mode = 0
    /\ ram_size = 0
    /\ ram = EmptyRam
    /\ has_battery = FALSE

\* Cartridge::new does not panic on the cartridge type
Supported(type) == type \in 0..3

\* Cartridge::new for an image of len bytes whose header holds the three
\* bytes: Mbc0::new(rom) for type 0, Mbc1::new(rom, ram_size, has_battery)
\* for types 1 to 3, and a panic for every other type (no cartridge exists
\* then; the fields keep the values of an image without mapper).
CartridgeNew(len, seed, type, rom_code, ram_code) ==
    /\ cart_type = type
    /\ rom_size_byte = rom_code
    /\ ram_size_byte = ram_code
    /\ rom_len = len
    /\ rom_seed = seed
    /\ rom_bank = 1
    /\ ram_bank = 0
    /\ ram_enabled = FALSE
    /\ banking_mode = 0
    /\ ram_size = IF type \in 1..3 THEN parse_ram_size(ram_code) ELSE 0
    /\ ram = EmptyRam
    /\ has_battery = (Supported(type) /\ is_battery_backed(type))

\* Mbc1::new for an image of len bytes with size bytes of external RAM; the
\* header of the image names that RAM size
MbcInit(len, seed, size, battery) ==
    /\ cart_type = 1
    /\ rom_size_byte = 0
    /\ ram_size_byte \in {code \in 0..5 : parse_ram_size(code) = size}
    /\ rom_len = len
    /\ rom_seed = seed
    /\ rom_bank = 1
    /\ ram_bank = 0
    /\ ram_enabled = FALSE
    /\ banking_mode = 0
    /\ ram_size = size
    /\ ram = EmptyRam
    /\ has_battery = battery

--------------------------------------------------------------------------
(* Joypad, and the address map of the Interconnect *)

\* enum Button, and the bit of each button in the nibble of its group
Buttons == {"Right", "Left", "Up", "Down", "A", "B", "Select", "Start"}
DirectionButtons == {"Right", "Left", "Up", "Down"}

ButtonBit(button) ==
    IF button \in {"Right", "A"} THEN 1
    ELSE IF button \in {"Left", "B"} THEN 2
    ELSE IF button \in {"Up", "Select"} THEN 4
    ELSE 8

\* Joypad::press on the state j
JoypadPress(j, button) ==
    IF button \in DirectionButtons
    THEN [j EXCEPT !.direction_buttons = AndNot(j.direction_buttons, ButtonBit(button))]
    ELSE [j EXCEPT !.action_buttons = AndNot(j.action_buttons, ButtonBit(button))]

\* Joypad::release on the state j
JoypadRelease(j, button) ==
    IF button \in DirectionButtons
    THEN [j EXCEPT !.direction_buttons = Or(j.direction_buttons, ButtonBit(button))]
    ELSE [j EXCEPT !.action_buttons = Or(j.action_buttons, ButtonBit(button))]

\* The mutation of Joypad::read that reads the directions alone when both
\* groups are selected.
JoypadReadOneGroup(j) ==
    LET select_direction == And(j.select, 16) = 0
        select_action == And(j.select, 32) = 0
        result == Or(And(207, 207), And(j.select, 48))
        buttons == IF select_direction THEN And(15, j.direction_buttons)
                   ELSE IF select_action THEN And(15, j.action_buttons)
                   ELSE 15
    IN  Or(And(result, 240), And(buttons, 15))

\* Joypad::read on the state j
JoypadRead(j) ==
    LET select_direction == And(j.select, 16) = 0
        select_action == And(j.select, 32) = 0
        result == Or(And(207, 207), And(j.select, 48))
        b1 == IF select_direction THEN And(15, j.direction_buttons) ELSE 15
        buttons == IF select_action THEN And(b1, j.action_buttons) ELSE b1
    IN  Or(And(result, 240), And(buttons, 15))

\* Joypad::write on the state j
JoypadWrite(j, value) == [j EXCEPT !.select = And(value, 48)]

\* Interconnect::write of an HRAM address (0xFF80-0xFFFE)
HramWrite(h, address, data) == [h EXCEPT ![address - 65408] = data]

\* The mutation of IfRead that returns the stored byte.
IfReadStored(b) == b.if_register

\* Interconnect::read of 0xFF0F (and Interconnect::if_reg) on the state b
IfRead(b) == Or(b.if_register, 224)

\* Interconnect::read on the state b
BusRead(b, address) ==
    IF address <= 32767 THEN CartridgeRead(b, address)
    ELSE IF address <= 40959 THEN VecGet(b.vram, address - 32768, 0)
    ELSE IF address <= 49151 THEN CartridgeRead(b, address)
    ELSE IF address <= 57343 THEN VecGet(b.wram, address - 49152, 0)
    ELSE IF address <= 65023 THEN VecGet(b.wram, address - 57344, 0)
    ELSE IF address <= 65183 THEN VecGet(b.oam, address - 65024, 0)
    ELSE IF address <= 65279 THEN 255
    ELSE IF address = 65280 THEN JoypadRead(b)
    ELSE IF address >= 65284 /\ address <= 65287 THEN TimerRead(b, address)
    ELSE IF address = 65295 THEN IfRead(b)
    ELSE IF address = 65350 THEN 255
    ELSE IF address >= 65344 /\ address <= 65355 THEN PpuRead(b, address)
    ELSE IF address <= 65407 THEN VecGet(b.io_registers, address - 65280, 255)
    ELSE IF address <= 65534 THEN b.hram[address - 65408]
    ELSE b.ie_register

\* The mutation of oam_dma that copies 159 bytes.
oam_dma_short(b, data) ==
    LET source == data * 256
        byte(i) == IF i < 159 THEN BusRead(b, source + i) ELSE VecGet(b.oam, i, 0)
    IN  [b EXCEPT !.oam = [i \in {j \in 0..159 : byte(j) # 0} |-> byte(i)]]

\* Interconnect::oam_dma on the state b.  The loop stores byte i at oam[i]
\* after reading source + i; a read of source + i depends on oam only when
\* source is 0xFE00, and then on oam[i] alone, so no iteration reads a byte
\* an earlier one stored and the 160 assignments are made at once.
oam_dma(b, data) ==
    LET source == data * 256
    IN  [b EXCEPT !.oam = [i \in {j \in 0..159 : BusRead(b, source + j) # 0} |->
                               BusRead(b, source + i)]]

\* Interconnect::write on the state b
BusWrite(b, address, data) ==
    IF address <= 32767 THEN CartridgeWrite(b, address, data)
    ELSE IF address <= 40959
    THEN [b EXCEPT !.vram = VecSet(b.vram, address - 32768, data, 0)]
    ELSE IF address <= 49151 THEN CartridgeWrite(b, address, data)
    ELSE IF address <= 57343
    THEN [b EXCEPT !.wram = VecSet(b.wram, address - 49152, data, 0)]
    ELSE IF address <= 65023
    THEN [b EXCEPT !.wram = VecSet(b.wram, address - 57344, data, 0)]
    ELSE IF address <= 65183
    THEN [b EXCEPT !.oam = VecSet(b.oam, address - 65024, data, 0)]
    ELSE IF address <= 65279 THEN b
    ELSE IF address = 65280 THEN JoypadWrite(b, data)
    ELSE IF address >= 65284 /\ address <= 65287 THEN TimerWrite(b, address, data)
    ELSE IF address = 65295 THEN [b EXCEPT !.if_register = Or(data, 224)]
    ELSE IF address = 65350 THEN oam_dma(b, data)
    ELSE IF address >= 65344 /\ address <= 65355 THEN PpuWrite(b, address, data)
    ELSE IF address <= 65407
    THEN [b EXCEPT !.io_registers = VecSet(b.io_registers, address - 65280, data, 255)]
    ELSE IF address <= 65534 THEN [b EXCEPT !.hram = HramWrite(b.hram, address, data)]
    ELSE [b EXCEPT !.ie_register = data]

--------------------------------------------------------------------------
(* Cpu *)

\* Interconnect::read of a ROM address through Mbc0::read, decoded by
\* execute_opcode: the cartridge holds prog from 0x0100 on and 0x00 (NOP)
\* everywhere else.
OpcodeAt(address) ==
    IF address >= 256 /\ address < 256 + Len(prog)
    THEN prog[address - 255]
    ELSE "Nop"

\* Interconnect::clear_interrupt
clear_interrupt(ifr, interrupt) == AndNot(ifr, interrupt)

\* The registers of the Cpu, and the Cpu with the bus it drives
Cpu ==
    [reg_pc |-> reg_pc, reg_sp |-> reg_sp, regs_af |-> regs_af, regs_bc |-> regs_bc,
     regs_de |-> regs_de, regs_hl |-> regs_hl, flags |-> flags, ime |-> ime,
     ime_pending |-> ime_pending, halted |-> halted]

Machine == [cpu |-> Cpu, bus |-> Bus]

\* The registers c become the registers of the Cpu
SetCpu(c) ==
    /\ reg_pc' = c.reg_pc
    /\ reg_sp' = c.reg_sp
    /\ regs_af' = c.regs_af
    /\ regs_bc' = c.regs_bc
    /\ regs_de' = c.regs_de
    /\ regs_hl' = c.regs_hl
    /\ flags' = c.flags
    /\ ime' = c.ime
    /\ ime_pending' = c.ime_pending
    /\ halted' = c.halted

\* Register::new(num), as the value Register::get returns for it: new stores
\* the low byte of num in hi and the high byte in lo.
RegisterNew(num) == (num % 256) * 256 + (num \div 256)

\* Register::get_hi and Register::set_hi of a register whose get() is r
get_hi(r) == r \div 256
set_hi(r, num) == num * 256 + (r % 256)

\* Cpu::get_reg_a, Cpu::set_reg_a
get_reg_a(c) == get_hi(c.regs_af)
set_reg_a(c, num) == [c EXCEPT !.regs_af = set_hi(c.regs_af, num)]

\* Cpu::af
af(c) == c.regs_af

\* The F byte built from the flags
FlagsByte(f) ==
    (IF f.z THEN 128 ELSE 0) + (IF f.n THEN 64 ELSE 0)
    + (IF f.h THEN 32 ELSE 0) + (IF f.c THEN 16 ELSE 0)

\* Cpu::read_r16_stack
read_r16_stack(c, r) ==
    CASE r = "BC" -> c.regs_bc
      [] r = "DE" -> c.regs_de
      [] r = "HL" -> c.regs_hl
      [] r = "AF" -> get_reg_a(c) * 256 + FlagsByte(c.flags)

\* Cpu::write_r16_stack
write_r16_stack(c, r, val) ==
    CASE r = "BC" -> [c EXCEPT !.regs_bc = val]
      [] r = "DE" -> [c EXCEPT !.regs_de = val]
      [] r = "HL" -> [c EXCEPT !.regs_hl = val]
      [] r = "AF" -> [c EXCEPT !.regs_af = And(val, 65520),
                               !.flags = [z |-> Bit(val, 7) = 1, n |-> Bit(val, 6) = 1,
                                          h |-> Bit(val, 5) = 1, c |-> Bit(val, 4) = 1]]

\* Cpu::write_r16
write_r16(c, r, val) ==
    CASE r = "BC" -> [c EXCEPT !.regs_bc = val]
      [] r = "DE" -> [c EXCEPT !.regs_de = val]
      [] r = "HL" -> [c EXCEPT !.regs_hl = val]
      [] r = "SP" -> [c EXCEPT !.reg_sp = val]

\* The mutation of push_16 that stores the low byte above the high byte.
push_16_swapped(st, value) ==
    LET sp1 == (st.cpu.reg_sp + 65535) % 65536
        sp2 == (sp1 + 65535) % 65536
    IN  [cpu |-> [st.cpu EXCEPT !.reg_sp = sp2],
         bus |-> BusWrite(BusWrite(st.bus, sp1, value % 256), sp2, value \div 256)]

\* Cpu::push_16 on the machine st
push_16(st, value) ==
    LET sp1 == (st.cpu.reg_sp + 65535) % 65536
        sp2 == (sp1 + 65535) % 65536
    IN  [cpu |-> [st.cpu EXCEPT !.reg_sp = sp2],
         bus |-> BusWrite(BusWrite(st.bus, sp1, value \div 256), sp2, value % 256)]

\* The mutation of pop_16 that reads the high byte below the low byte.
pop_16_swapped(st) ==
    LET sp1 == (st.cpu.reg_sp + 1) % 65536
        hi == BusRead(st.bus, st.cpu.reg_sp)
        lo == BusRead(st.bus, sp1)
    IN  [st |-> [st EXCEPT !.cpu.reg_sp = (sp1 + 1) % 65536],
         value |-> hi * 256 + lo]

\* Cpu::pop_16 on the machine st: the machine it leaves and the value
pop_16(st) ==
    LET sp1 == (st.cpu.reg_sp + 1) % 65536
        lo == BusRead(st.bus, st.cpu.reg_sp)
        hi == BusRead(st.bus, sp1)
    IN  [st |-> [st EXCEPT !.cpu.reg_sp = (sp1 + 1) % 65536],
         value |-> hi * 256 + lo]

\* Cpu::read_imm8
read_imm8(st) ==
    [st |-> [st EXCEPT !.cpu.reg_pc = (st.cpu.reg_pc + 1) % 65536],
     value |-> BusRead(st.bus, st.cpu.reg_pc)]

\* Cpu::read_imm16
read_imm16(st) ==
    LET pc1 == (st.cpu.reg_pc + 1) % 65536
    IN  [st |-> [st EXCEPT !.cpu.reg_pc = (pc1 + 1) % 65536],
         value |-> BusRead(st.bus, pc1) * 256 + BusRead(st.bus, st.cpu.reg_pc)]

\* Cpu::alu_add
alu_add(c, value) ==
    LET a == get_reg_a(c)
        result == (a + value) % 256
    IN  [set_reg_a(c, result) EXCEPT
            !.flags = [z |-> result = 0, n |-> FALSE,
                       h |-> (a % 16) + (value % 16) > 15,
                       c |-> a + value > 255]]

\* The mutation of daa that leaves the carry flag as it was.
daa_carry_kept(c) ==
    LET a == get_reg_a(c)
        f == c.flags
        a1 == IF ~f.n
              THEN IF f.c \/ a > 153 THEN (a + 96) % 256 ELSE a
              ELSE IF f.c THEN (a + 256 - 96) % 256 ELSE a
        a2 == IF ~f.n
              THEN IF f.h \/ (a1 % 16) > 9 THEN (a1 + 6) % 256 ELSE a1
              ELSE IF f.h THEN (a1 + 256 - 6) % 256 ELSE a1
    IN  set_reg_a([c EXCEPT !.flags = [z |-> a2 = 0, n |-> f.n, h |-> FALSE, c |-> f.c]],
                  a2)

\* Opcode::Daa on the registers c
daa(c) ==
    LET a == get_reg_a(c)
        f == c.flags
        \* a after the 0x60 step, and the carry flag it leaves
        a1 == IF ~f.n
              THEN IF f.c \/ a > 153 THEN (a + 96) % 256 ELSE a
              ELSE IF f.c THEN (a + 256 - 96) % 256 ELSE a
        c1 == IF ~f.n THEN (f.c \/ a > 153) ELSE f.c
        \* a after the 0x06 step
        a2 == IF ~f.n
              THEN IF f.h \/ (a1 % 16) > 9 THEN (a1 + 6) % 256 ELSE a1
              ELSE IF f.h THEN (a1 + 256 - 6) % 256 ELSE a1
    IN  set_reg_a([c EXCEPT !.flags = [z |-> a2 = 0, n |-> f.n, h |-> FALSE, c |-> c1]],
                  a2)

\* The mutation of ei that sets IME at once.
ei_immediate(c) == [c EXCEPT !.ime = TRUE]

\* Opcode::Ei on the registers c
ei(c) == [c EXCEPT !.ime_pending = TRUE]

\* The mutation of di that leaves a pending enable in place.
di_ime_only(c) == [c EXCEPT !.ime = FALSE]

\* Opcode::Di on the registers c
di(c) == [c EXCEPT !.ime = FALSE, !.ime_pending = FALSE]

\* The mutation of alu_adc whose half carry leaves out the incoming carry.
alu_adc_half(c, value) ==
    LET a == get_reg_a(c)
        carry == IF c.flags.c THEN 1 ELSE 0
        result == (a + value + carry) % 256
    IN  [set_reg_a(c, result) EXCEPT
            !.flags = [z |-> result = 0, n |-> FALSE,
                       h |-> (a % 16) + (value % 16) > 15,
                       c |-> a + value + carry > 255]]

\* Cpu::alu_adc
alu_adc(c, value) ==
    LET a == get_reg_a(c)
        carry == IF c.flags.c THEN 1 ELSE 0
        result == (((a + value) % 256) + carry) % 256
    IN  [set_reg_a(c, result) EXCEPT
            !.flags = [z |-> result = 0, n |-> FALSE,
                       h |-> (a % 16) + (value % 16) + carry > 15,
                       c |-> a + value + carry > 255]]

\* Cpu::alu_sub
alu_sub(c, value) ==
    LET a == get_reg_a(c)
        result == (a + 256 - value) % 256
    IN  [set_reg_a(c, result) EXCEPT
            !.flags = [z |-> result = 0, n |-> TRUE,
                       h |-> (a % 16) < (value % 16),
                       c |-> a < value]]

\* Cpu::alu_sbc
alu_sbc(c, value) ==
    LET a == get_reg_a(c)
        carry == IF c.flags.c THEN 1 ELSE 0
        result == (((a + 256 - value) % 256) + 256 - carry) % 256
    IN  [set_reg_a(c, result) EXCEPT
            !.flags = [z |-> result = 0, n |-> TRUE,
                       h |-> (a % 16) < (value % 16) + carry,
                       c |-> a < value + carry]]

\* Cpu::alu_cp
alu_cp(c, value) ==
    LET a == get_reg_a(c)
    IN  [c EXCEPT !.flags = [z |-> a = value, n |-> TRUE,
                             h |-> (a % 16) < (value % 16),
                             c |-> a < value]]

\* The mutation of sign_extend that extends with zeros.
zero_extend(byte) == byte

\* `as i8 as i16 as u16` of an operand byte
sign_extend(byte) == IF byte >= 128 THEN byte + 65280 ELSE byte

\* Opcode::Add_Sp_r8 and Opcode::Ld_Hl_SpPlusr8: the flags and the sum of SP
\* and the operand byte
sp_plus_r8(c, byte) ==
    LET offset == sign_extend(byte)
        sp == c.reg_sp
    IN  [flags |-> [z |-> FALSE, n |-> FALSE,
                    h |-> (sp % 16) + (offset % 16) > 15,
                    c |-> (sp % 256) + (offset % 256) > 255],
         sum |-> (sp + offset) % 65536]

\* The register pair a PUSH or POP opcode names ((opcode >> 4) & 0x03)
StackReg(opcode) ==
    CASE opcode \in {"Push_Bc", "Pop_Bc"} -> "BC"
      [] opcode \in {"Push_De", "Pop_De"} -> "DE"
      [] opcode \in {"Push_Hl", "Pop_Hl"} -> "HL"
      [] opcode \in {"Push_Af", "Pop_Af"} -> "AF"

\* The opcode bytes of the conditional JR, RET, JP and CALL
OpcodeByte(opcode) ==
    CASE opcode = "Jr_Nz_r8" -> 32     [] opcode = "Jr_Z_r8" -> 40
      [] opcode = "Jr_Nc_r8" -> 48     [] opcode = "Jr_C_r8" -> 56
      [] opcode = "Ret_Nz" -> 192      [] opcode = "Ret_Z" -> 200
      [] opcode = "Ret_Nc" -> 208      [] opcode = "Ret_C" -> 216
      [] opcode = "Jp_Nz_a16" -> 194   [] opcode = "Jp_Z_a16" -> 202
      [] opcode = "Jp_Nc_a16" -> 210   [] opcode = "Jp_C_a16" -> 218
      [] opcode = "Call_Nz_a16" -> 196 [] opcode = "Call_Z_a16" -> 204
      [] opcode = "Call_Nc_a16" -> 212 [] opcode = "Call_C_a16" -> 220

\* ConditionCode::from_bits
ConditionCode_from_bits(bits) ==
    CASE bits % 4 = 0 -> "NZ"
      [] bits % 4 = 1 -> "Z"
      [] bits % 4 = 2 -> "NC"
      [] bits % 4 = 3 -> "C"

\* The mutation of check_condition that tests the carry flag for NZ and Z.
check_condition_carry(c, cond) ==
    CASE cond = "NZ" -> ~c.flags.c
      [] cond = "Z" -> c.flags.c
      [] cond = "NC" -> ~c.flags.c
      [] cond = "C" -> c.flags.c

\* Cpu::check_condition
check_condition(c, cond) ==
    CASE cond = "NZ" -> ~c.flags.z
      [] cond = "Z" -> c.flags.z
      [] cond = "NC" -> ~c.flags.c
      [] cond = "C" -> c.flags.c

\* ConditionCode::from_bits((opcode >> 3) & 0x03)
OpcodeCondition(opcode) == ConditionCode_from_bits((OpcodeByte(opcode) \div 8) % 4)

\* Cpu::execute_opcode on the machine st, whose PC is past the opcode: the
\* machine it leaves and the T-cycles it returns
execute_opcode(st, opcode) ==
    CASE opcode = "Nop" -> [st |-> st, cycles |-> 4]
      [] opcode = "Halt" -> [st |-> [st EXCEPT !.cpu.halted = TRUE], cycles |-> 4]
      [] opcode = "Di" -> [st |-> [st EXCEPT !.cpu = di(st.cpu)], cycles |-> 4]
      [] opcode = "Ei" -> [st |-> [st EXCEPT !.cpu = ei(st.cpu)], cycles |-> 4]
      [] opcode \in {"Push_Bc", "Push_De", "Push_Hl", "Push_Af"} ->
            [st |-> push_16(st, read_r16_stack(st.cpu, StackReg(opcode))),
             cycles |-> 16]
      [] opcode \in {"Pop_Bc", "Pop_De", "Pop_Hl", "Pop_Af"} ->
            LET p == pop_16(st)
            IN  [st |-> [p.st EXCEPT
                            !.cpu = write_r16_stack(p.st.cpu, StackReg(opcode), p.value)],
                 cycles |-> 12]
      [] opcode = "Add_A_d8" ->
            LET i == read_imm8(st)
            IN  [st |-> [i.st EXCEPT !.cpu = alu_add(i.st.cpu, i.value)], cycles |-> 8]
      [] opcode = "Adc_A_d8" ->
            LET i == read_imm8(st)
            IN  [st |-> [i.st EXCEPT !.cpu = alu_adc(i.st.cpu, i.value)], cycles |-> 8]
      [] opcode = "Sub_A_d8" ->
            LET i == read_imm8(st)
            IN  [st |-> [i.st EXCEPT !.cpu = alu_sub(i.st.cpu, i.value)], cycles |-> 8]
      [] opcode = "Sbc_A_d8" ->
            LET i == read_imm8(st)
            IN  [st |-> [i.st EXCEPT !.cpu = alu_sbc(i.st.cpu, i.value)], cycles |-> 8]
      [] opcode = "Cp_A_d8" ->
            LET i == read_imm8(st)
            IN  [st |-> [i.st EXCEPT !.cpu = alu_cp(i.st.cpu, i.value)], cycles |-> 8]
      [] opcode = "Add_Sp_r8" ->
            LET i == read_imm8(st)
                r == sp_plus_r8(i.st.cpu, i.value)
            IN  [st |-> [i.st EXCEPT !.cpu.flags = r.flags, !.cpu.reg_sp = r.sum],
                 cycles |-> 16]
      [] opcode = "Ld_Hl_SpPlusr8" ->
            LET i == read_imm8(st)
                r == sp_plus_r8(i.st.cpu, i.value)
            IN  [st |-> [i.st EXCEPT !.cpu.flags = r.flags, !.cpu.regs_hl = r.sum],
                 cycles |-> 12]
      [] opcode \in {"Jr_Nz_r8", "Jr_Z_r8", "Jr_Nc_r8", "Jr_C_r8"} ->
            LET i == read_imm8(st)
            IN  IF check_condition(i.st.cpu, OpcodeCondition(opcode))
                THEN [st |-> [i.st EXCEPT !.cpu.reg_pc =
                                 (i.st.cpu.reg_pc + sign_extend(i.value)) % 65536],
                      cycles |-> 12]
                ELSE [st |-> i.st, cycles |-> 8]
      [] opcode \in {"Ret_Nz", "Ret_Z", "Ret_Nc", "Ret_C"} ->
            IF check_condition(st.cpu, OpcodeCondition(opcode))
            THEN LET p == pop_16(st)
                 IN  [st |-> [p.st EXCEPT !.cpu.reg_pc = p.value], cycles |-> 20]
            ELSE [st |-> st, cycles |-> 8]
      [] opcode \in {"Jp_Nz_a16", "Jp_Z_a16", "Jp_Nc_a16", "Jp_C_a16"} ->
            LET i == read_imm16(st)
            IN  IF check_condition(i.st.cpu, OpcodeCondition(opcode))
                THEN [st |-> [i.st EXCEPT !.cpu.reg_pc = i.value], cycles |-> 16]
                ELSE [st |-> i.st, cycles |-> 12]
      [] opcode \in {"Call_Nz_a16", "Call_Z_a16", "Call_Nc_a16", "Call_C_a16"} ->
            LET i == read_imm16(st)
            IN  IF check_condition(i.st.cpu, OpcodeCondition(opcode))
                THEN LET pushed == push_16(i.st, i.st.cpu.reg_pc)
                     IN  [st |-> [pushed EXCEPT !.cpu.reg_pc = i.value], cycles |-> 24]
                ELSE [st |-> i.st, cycles |-> 12]
      [] opcode = "Daa" -> [st |-> [st EXCEPT !.cpu = daa(st.cpu)], cycles |-> 4]
      [] opcode = "Ret" ->
            LET p == pop_16(st)
            IN  [st |-> [p.st EXCEPT !.cpu.reg_pc = p.value], cycles |-> 16]
      [] opcode = "Reti" ->
            LET p == pop_16([st EXCEPT !.cpu.ime = TRUE])
            IN  [st |-> [p.st EXCEPT !.cpu.reg_pc = p.value], cycles |-> 16]
      [] opcode = "Call_a16" ->
            LET i == read_imm16(st)
                pushed == push_16(i.st, i.st.cpu.reg_pc)
            IN  [st |-> [pushed EXCEPT !.cpu.reg_pc = i.value], cycles |-> 24]

\* The mutation of InterruptChoice that tests the joypad bit first.
InterruptChoiceJoypadFirst(pending) ==
    IF Bit(pending, 4) = 1 THEN <<16, 96>>
    ELSE IF Bit(pending, 0) = 1 THEN <<1, 64>>
    ELSE IF Bit(pending, 1) = 1 THEN <<2, 72>>
    ELSE IF Bit(pending, 2) = 1 THEN <<4, 80>>
    ELSE <<8, 88>>

\* Cpu::handle_interrupts, the choice of (interrupt_bit, vector)
InterruptChoice(pending) ==
    IF Bit(pending, 0) = 1 THEN <<1, 64>>
    ELSE IF Bit(pending, 1) = 1 THEN <<2, 72>>
    ELSE IF Bit(pending, 2) = 1 THEN <<4, 80>>
    ELSE IF Bit(pending, 3) = 1 THEN <<8, 88>>
    ELSE <<16, 96>>

\* The mutation of handle_interrupts that leaves IME set when it dispatches.
handle_interrupts_ime_kept ==
    LET ime1 == ime \/ ime_pending
        pending == pending_interrupts
        c1 == [Cpu EXCEPT !.ime_pending = FALSE, !.ime = ime1,
                          !.halted = (halted /\ pending = 0)]
    IN  IF ~ime1 \/ pending = 0
        THEN /\ SetCpu(c1)
             /\ SetBus(Bus)
             /\ cpu_cycles' = 0
        ELSE LET choice == InterruptChoice(pending)
                 b1 == [Bus EXCEPT !.if_register =
                                       clear_interrupt(if_register, choice[1])]
                 pushed == push_16([cpu |-> c1, bus |-> b1], reg_pc)
             IN  /\ SetCpu([pushed.cpu EXCEPT !.reg_pc = choice[2]])
                 /\ SetBus(pushed.bus)
                 /\ cpu_cycles' = 20

\* Cpu::handle_interrupts
handle_interrupts ==
    LET ime1 == ime \/ ime_pending
        pending == pending_interrupts
        c1 == [Cpu EXCEPT !.ime_pending = FALSE, !.ime = ime1,
                          !.halted = (halted /\ pending = 0)]
    IN  IF ~ime1 \/ pending = 0
        THEN /\ SetCpu(c1)
             /\ SetBus(Bus)
             /\ cpu_cycles' = 0
        ELSE LET choice == InterruptChoice(pending)
                 b1 == [Bus EXCEPT !.if_register =
                                       clear_interrupt(if_register, choice[1])]
                 pushed == push_16([cpu |-> [c1 EXCEPT !.ime = FALSE], bus |-> b1],
                                   reg_pc)
             IN  /\ SetCpu([pushed.cpu EXCEPT !.reg_pc = choice[2]])
                 /\ SetBus(pushed.bus)
                 /\ cpu_cycles' = 20

\* Cpu::execute_next_opcode
execute_next_opcode ==
    LET opcode == OpcodeAt(reg_pc)
        pc1 == (reg_pc + 1) % 65536
        r == execute_opcode([Machine EXCEPT !.cpu.reg_pc = pc1], opcode)
    IN  /\ SetCpu(r.st.cpu)
        /\ SetBus(r.st.bus)
        /\ cpu_cycles' = r.cycles
        /\ halt_ret' = IF opcode = "Halt" THEN pc1 ELSE halt_ret

\* Cpu::execute_opcode(inter, opcode) called on the machine as it is: the
\* opcode is given, its operand bytes are read at PC
ExecuteOpcodeOp(opcode) ==
    LET r == execute_opcode(Machine, opcode)
    IN  /\ SetCpu(r.st.cpu)
        /\ SetBus(r.st.bus)
        /\ cpu_cycles' = r.cycles
        /\ instruction_count' = instruction_count + 1
        /\ op' = opcode
        /\ arg' = <<get_reg_a(Cpu), FlagsByte(flags)>>
        /\ ret' = r.cycles
        /\ UNCHANGED <<busFixed, prog, elapsed, frame_clock, passed, since, halt_ret,
                       ei_at>>

\* The registers Cpu::new returns
CpuNew ==
    [reg_pc |-> 256, reg_sp |-> 65534, regs_af |-> RegisterNew(432),
     regs_bc |-> RegisterNew(19), regs_de |-> RegisterNew(216),
     regs_hl |-> RegisterNew(333),
     flags |-> [z |-> TRUE, n |-> FALSE, h |-> TRUE, c |-> TRUE],
     ime |-> FALSE, ime_pending |-> FALSE, halted |-> FALSE]

\* The Cpu holds the registers c and has executed nothing
CpuIs(c) ==
    /\ reg_pc = c.reg_pc
    /\ reg_sp = c.reg_sp
    /\ ime = c.ime
    /\ ime_pending = c.ime_pending
    /\ halted = c.halted
    /\ regs_af = c.regs_af
    /\ regs_bc = c.regs_bc
    /\ regs_de = c.regs_de
    /\ regs_hl = c.regs_hl
    /\ flags = c.flags
    /\ instruction_count = 0
    /\ prog = <<>>

\* Cpu::new, GameBoy::new
CpuInit(p) ==
    /\ reg_pc = 256
    /\ reg_sp = 65534
    /\ ime = FALSE
    /\ ime_pending = FALSE
    /\ halted = FALSE
    /\ regs_af = RegisterNew(432)
    /\ regs_bc = RegisterNew(19)
    /\ regs_de = RegisterNew(216)
    /\ regs_hl = RegisterNew(333)
    /\ flags = [z |-> TRUE, n |-> FALSE, h |-> TRUE, c |-> TRUE]
    /\ instruction_count = 0
    /\ prog = p

--------------------------------------------------------------------------
(* The state after construction *)

HistoryAfter(o, r) ==
    /\ op = o
    /\ arg = <<0, 0>>
    /\ cpu_cycles = 0
    /\ ret = r
    /\ elapsed = 0
    /\ frame_clock = 0
    /\ passed = FALSE
    /\ since = -1
    /\ ram_written = <<>>
    /\ halt_ret = -1
    /\ ei_at = -1

HistoryInit == HistoryAfter("new", 0)

\* GameBoy::new over a 32 KiB cartridge
InitAll ==
    /\ PpuInit
    /\ TimerInit
    /\ IntInit
    /\ MbcInit(32768, 0, 0, FALSE)
    /\ CpuInit(<<>>)
    /\ HistoryInit

--------------------------------------------------------------------------
(* The PPU driven directly: Ppu::step, Ppu::write(0xFF40, _) and the host's *)
(* clear of the frame_ready latch.                                         *)

\* Largest cycle count of a short step, largest count of whole scanlines
MaxCycles == 4
MaxLines == 2

\* Cycle counts passed to step: whole scanlines, the time to VBlank entry, a
\* frame and a frame and a line; from the start of a scanline the count that
\* stops MaxCycles short of its end, and from there every short count up to
\* the end of the scanline.
StepCycles ==
    {k * CYCLES_PER_SCANLINE : k \in 0..MaxLines}
    \cup {VBlankEntryCycle, CYCLES_PER_FRAME, CYCLES_PER_FRAME + CYCLES_PER_SCANLINE}
    \cup (IF scanline_cycles = 0 THEN {CYCLES_PER_SCANLINE - MaxCycles} ELSE {})
    \cup {c \in 1..MaxCycles : /\ scanline_cycles >= CYCLES_PER_SCANLINE - MaxCycles
                               /\ scanline_cycles + c <= CYCLES_PER_SCANLINE}

\* LCDC values written: LCD off and LCD on
LcdcVals == {17, 145}

\* Ppu::step(cycles, vram, oam)
PpuStepOp(cycles) ==
    LET p == PpuStepped(cycles)
    IN  /\ ly' = p.ly
        /\ scanline_cycles' = p.scanline_cycles
        /\ mode' = p.mode
        /\ frame_ready' = p.frame_ready
        /\ framebuffer' = p.framebuffer
        /\ lcdc' = lcdc
        /\ frame_clock' = ClockAfter(cycles)
        /\ passed' = (lcd_enabled(lcdc) /\ PassesVBlankEntry(frame_clock, cycles))
        /\ op' = "ppu_step"
        /\ ret' = p.entered_vblank
        /\ UNCHANGED <<ppu_regs, timerVars, intVars, memVars, joyVars, mbcVars, ram_written, cpuVars, instruction_count,
                       prog, cpu_cycles, elapsed, since, halt_ret, ei_at, arg>>

\* Ppu::write(0xFF40, val)
PpuWriteLcdcOp(val) ==
    LET p == WriteLcdcTo(val)
    IN  /\ lcdc' = val
        /\ ly' = p.ly
        /\ scanline_cycles' = p.scanline_cycles
        /\ mode' = p.mode
        /\ frame_ready' = frame_ready
        /\ framebuffer' = framebuffer
        /\ frame_clock' = IF lcd_enabled(val) THEN frame_clock ELSE 0
        /\ passed' = FALSE
        /\ op' = "write_lcdc"
        /\ ret' = 0
        /\ UNCHANGED <<ppu_regs, timerVars, intVars, memVars, joyVars, mbcVars, ram_written, cpuVars, instruction_count,
                       prog, cpu_cycles, elapsed, since, halt_ret, ei_at, arg>>

\* Interconnect::clear_frame_ready
ClearFrameReadyOp ==
    /\ frame_ready
    /\ frame_ready' = FALSE
    /\ passed' = FALSE
    /\ op' = "clear_frame_ready"
    /\ ret' = 0
    /\ UNCHANGED <<ly, scanline_cycles, mode, lcdc, framebuffer, ppu_regs, timerVars,
                   intVars, memVars, joyVars, mbcVars, ram_written, cpuVars,
                   instruction_count, prog, cpu_cycles, elapsed, frame_clock, since,
                   halt_ret, ei_at, arg>>

\* C21: a write to LCDC that clears bit 7 while bit 7 is set leaves LY = 0,
\* the intra-scanline accumulator = 0 and the mode = HBlank, whatever the
\* PPU state before the write.
C21_LcdDisableResets ==
    [][ (op' = "write_lcdc" /\ lcd_enabled(lcdc) /\ ~lcd_enabled(lcdc')) =>
            (ly' = 0 /\ scanline_cycles' = 0 /\ mode' = HBlank) ]_vars

\* C21 witness: the LCD was disabled by a write after the PPU had run into
\* VBlank, and the position is (0, 0, HBlank).
C21_Witness ==
    /\ op = "write_lcdc"
    /\ ~lcd_enabled(lcdc)
    /\ frame_ready
    /\ ly = 0 /\ scanline_cycles = 0 /\ mode = HBlank

PpuNext ==
    \/ \E c \in StepCycles : PpuStepOp(c)
    \/ \E v \in LcdcVals : PpuWriteLcdcOp(v)
    \/ ClearFrameReadyOp

SpecPpu == InitAll /\ [][PpuNext]_vars

\* C1: with the LCD enabled the PPU position is the stepped time modulo one
\* frame (70,224 T-cycles), a step sets frame_ready exactly when that time
\* passes the 143->144 transition, and nothing else ever sets it.
C1_FrameReadyAtVBlankEntry ==
    [][ /\ lcd_enabled(lcdc') =>
             ly' * CYCLES_PER_SCANLINE + scanline_cycles' = frame_clock'
        /\ op' = "ppu_step" => /\ ret' = passed'
                               /\ frame_ready' = (frame_ready \/ passed')
        /\ op' # "ppu_step" => (frame_ready' => frame_ready) ]_vars

\* C1 witness: a step has just carried LY from 143 to 144 and set the latch.
C1_Witness ==
    /\ op = "ppu_step"
    /\ ret = TRUE
    /\ passed
    /\ ly = VBLANK_START
    /\ frame_ready


--------------------------------------------------------------------------
(* The CPU driven through GameBoy::step and Cpu::handle_interrupts, with  *)
(* the interrupt registers written over the bus.                          *)

\* Largest number of instructions executed
MaxSteps == 5

\* Programs held by the cartridge from 0x0100 on
Programs ==
    { <<"Di", "Ei", "Nop", "Halt">>,
      <<"Ei", "Halt", "Nop", "Ei">>,
      <<"Halt", "Nop", "Ei", "Nop">> }

\* Values written to IF (0xFF0F) and to IE (0xFFFF)
IfVals == {0, 28, 31}
IeVals == {0, 16, 26, 31}

\* GameBoy::step
GameBoyStep ==
    /\ instruction_count < MaxSteps
    /\ execute_next_opcode
    /\ instruction_count' = instruction_count + 1
    /\ ei_at' = IF OpcodeAt(reg_pc) = "Ei" THEN instruction_count + 1 ELSE ei_at
    /\ op' = "step"
    /\ arg' = <<reg_pc, reg_sp>>
    /\ ret' = FALSE
    /\ UNCHANGED <<busFixed, prog, elapsed, frame_clock, passed, since>>

\* Cpu::handle_interrupts(inter)
HandleInterruptsOp ==
    /\ handle_interrupts
    /\ op' = "handle_interrupts"
    /\ ret' = cpu_cycles'
    /\ UNCHANGED <<busFixed, instruction_count, prog, elapsed, frame_clock, passed,
                   since, halt_ret, ei_at, arg>>

\* Interconnect::write(0xFF0F, data)
WriteIfOp(data) ==
    /\ if_register' = Or(data, 224)
    /\ op' = "write_if"
    /\ ret' = 0
    /\ UNCHANGED <<ppuVars, timerVars, ie_register, memVars, joyVars, mbcVars, ram_written, cpuVars,
                   instruction_count, prog, cpu_cycles, elapsed, frame_clock, passed,
                   since, halt_ret, ei_at, arg>>

\* Interconnect::write(0xFFFF, data)
WriteIeOp(data) ==
    /\ ie_register' = data
    /\ op' = "write_ie"
    /\ ret' = 0
    /\ UNCHANGED <<ppuVars, timerVars, if_register, memVars, joyVars, mbcVars, ram_written, cpuVars,
                   instruction_count, prog, cpu_cycles, elapsed, frame_clock, passed,
                   since, halt_ret, ei_at, arg>>

\* GameBoy::new over a cartridge holding one of the programs
InitCpu ==
    /\ PpuInit
    /\ TimerInit
    /\ IntInit
    /\ MbcInit(32768, 0, 0, FALSE)
    /\ \E p \in Programs : CpuInit(p)
    /\ HistoryInit

CpuNext ==
    \/ GameBoyStep
    \/ HandleInterruptsOp
    \/ \E v \in IfVals : WriteIfOp(v)
    \/ \E v \in IeVals : WriteIeOp(v)

SpecCpu == InitCpu /\ [][CpuNext]_vars

C4_EiDelaysOneInstruction ==
    [][ (instruction_count = ei_at /\ ~ime /\ instruction_count' = instruction_count) =>
          /\ ~ime'
          /\ ~(op' = "handle_interrupts" /\ ret' = 20) ]_vars

\* C5: a handle_interrupts call on a halted CPU with IF & IE & 0x1F non-zero
\* clears halted; with IME false (and no EI pending) it dispatches nothing,
\* leaves IF, SP and PC alone, and PC is the address following HALT; with IME
\* true it dispatches.
C5_HaltWakeUp ==
    [][ (op' = "handle_interrupts" /\ halted /\ pending_interrupts # 0) =>
          /\ ~halted'
          /\ IF ime \/ ime_pending
             THEN ret' = 20
             ELSE /\ ret' = 0
                  /\ UNCHANGED <<if_register, reg_sp, reg_pc>>
                  /\ reg_pc = halt_ret ]_vars

\* C6: a GameBoy::step taken while halted with nothing pending consumes 4
\* T-cycles and leaves PC, SP, IME and the halted state unchanged.
C6_HaltedStepIsIdle ==
    [][ (op' = "step" /\ halted /\ pending_interrupts = 0) =>
          /\ cpu_cycles' = 4
          /\ UNCHANGED <<reg_pc, reg_sp, ime, ime_pending, halted>> ]_vars


--------------------------------------------------------------------------
(* The interconnect ticked over whole frames, with IF cleared over the bus *)
(* or by Interconnect::clear_interrupt and the LCD switched off.           *)

\* Largest number of frames ticked
MaxFrames == 2

\* Cycle counts passed to Interconnect::step: a frame; from the start of a
\* frame the count that stops MaxCycles short of VBlank entry; whole scanlines
\* from line 143 on; and every short count up to the end of a scanline.
TickCycles ==
    {CYCLES_PER_FRAME}
    \cup (IF ly = 0 /\ scanline_cycles = 0 THEN {VBlankEntryCycle - MaxCycles} ELSE {})
    \cup (IF ly >= VBLANK_START - 1 THEN {CYCLES_PER_SCANLINE} ELSE {})
    \cup {c \in 1..MaxCycles : /\ scanline_cycles >= CYCLES_PER_SCANLINE - MaxCycles
                               /\ scanline_cycles + c <= CYCLES_PER_SCANLINE}

\* Interconnect::step(cycles), within the horizon
TickOp(cycles) ==
    /\ elapsed + cycles <= MaxFrames * CYCLES_PER_FRAME
    /\ BusStep(cycles)

\* Interconnect::clear_interrupt(interrupt)
ClearInterruptOp(interrupt) ==
    /\ if_register' = clear_interrupt(if_register, interrupt)
    /\ op' = "clear_interrupt"
    /\ ret' = 0
    /\ UNCHANGED <<ppuVars, timerVars, ie_register, memVars, joyVars, mbcVars, ram_written, cpuVars,
                   instruction_count, prog, cpu_cycles, elapsed, frame_clock, passed,
                   since, halt_ret, ei_at, arg>>

BusNext ==
    \/ \E c \in TickCycles : TickOp(c)
    \/ WriteIfOp(0)
    \/ ClearInterruptOp(INT_VBLANK)
    \/ PpuWriteLcdcOp(17)

SpecBus == InitAll /\ [][BusNext]_vars

--------------------------------------------------------------------------
(* The whole machine: GameBoy::step, Cpu::handle_interrupts and           *)
(* Interconnect::step around one VBlank entry, with IE written over the   *)
(* bus.                                                                   *)

\* Cycle counts passed to Interconnect::step: from the start of a frame the
\* count that stops MaxCycles short of VBlank entry, and then every short
\* count up to the end of the scanline.
HostCycles ==
    (IF ly = 0 /\ scanline_cycles = 0 THEN {VBlankEntryCycle - MaxCycles} ELSE {})
    \cup {c \in 1..MaxCycles : /\ scanline_cycles >= CYCLES_PER_SCANLINE - MaxCycles
                               /\ scanline_cycles + c <= CYCLES_PER_SCANLINE}

\* GameBoy::new over a cartridge holding EI; NOP; EI; NOP
InitHost ==
    /\ PpuInit
    /\ TimerInit
    /\ IntInit
    /\ MbcInit(32768, 0, 0, FALSE)
    /\ CpuInit(<<"Ei", "Nop", "Ei", "Nop">>)
    /\ HistoryInit

HostNext ==
    \/ GameBoyStep
    \/ HandleInterruptsOp
    \/ \E c \in HostCycles : BusStep(c)
    \/ WriteIeOp(1)

SpecHost == InitHost /\ [][HostNext]_vars

\* C3: a tick that carries LY from 143 to 144 sets IF bit 0, and when IME is
\* true and IE bit 0 is set the CPU step that follows it dispatches VBlank:
\* PC is pushed, PC becomes 0x0040, IME becomes false, IF bit 0 is cleared and
\* 20 cycles are consumed.
C3_VBlankDispatchedAtNextFetch ==
    [][ /\ (op' = "tick" /\ passed') => Bit(if_register', 0) = 1
        /\ (op = "tick" /\ passed /\ ime /\ Bit(ie_register, 0) = 1 /\ op' = "step") =>
              /\ reg_pc' = 64
              /\ reg_sp' = reg_sp - 2
              /\ ~ime'
              /\ Bit(if_register', 0) = 0
              /\ cpu_cycles' = 20 ]_vars

\* C7: a tick sets IF bit 0 exactly when the PPU entered VBlank during it; a
\* tick shorter than a frame that starts and ends inside lines 144..153 leaves
\* the bit as it was; and nothing but such an entry (or a bus write to IF)
\* turns a clear bit on.
C7_VBlankLatchedOnEntryOnly ==
    [][ /\ op' = "tick" =>
              (Bit(if_register', 0) = 1 <=> (Bit(if_register, 0) = 1 \/ passed'))
        /\ (/\ op' = "tick"
            /\ ly >= VBLANK_START
            /\ ly' >= ly
            /\ elapsed' - elapsed < CYCLES_PER_FRAME) =>
              Bit(if_register', 0) = Bit(if_register, 0)
        /\ (Bit(if_register, 0) = 0 /\ Bit(if_register', 0) = 1 /\ op' # "write_if") =>
              (op' = "tick" /\ passed') ]_vars

\* C7 witness: VBlank was entered in this frame, its IF bit was cleared, and
\* a later tick inside VBlank has left it clear.
C7_Witness ==
    /\ op = "tick"
    /\ ~passed
    /\ ly > VBLANK_START
    /\ frame_ready
    /\ elapsed < CYCLES_PER_FRAME
    /\ Bit(if_register, 0) = 0


--------------------------------------------------------------------------
(* The timer written over the bus and ticked through Interconnect::step.  *)

\* Registers are written during the first MaxSetup T-cycles only
MaxSetup == 8

\* Writes to DIV, TIMA, TMA and TAC: <<address, value>>
TimerWrites ==
    { <<65284, 0>>, <<65285, 254>>, <<65285, 255>>, <<65286, 0>>, <<65286, 128>>,
      <<65287, 3>>, <<65287, 4>>, <<65287, 5>>, <<65287, 6>>, <<65287, 7>> }

\* Cycle counts passed to Interconnect::step: 4, and a quarter, a half and
\* the whole of the selected TIMA period
TimerCycles ==
    LET threshold == TimerClock(And(tac, 3))
    IN  {4, threshold \div 4, threshold \div 2, threshold}

\* Interconnect::write(address, val) for a timer register.  A write that
\* leaves TIMA = 0xFF with the timer enabled opens the measuring window; any
\* other write closes it.
TimerWriteOp(address, val) ==
    LET t == TimerWritten(address, val)
    IN  /\ elapsed <= MaxSetup
        /\ div_counter' = t.div_counter
        /\ tima' = t.tima
        /\ tma' = t.tma
        /\ tac' = t.tac
        /\ tima_counter' = t.tima_counter
        /\ since' = IF t.tima = 255 /\ Bit(t.tac, 2) = 1 THEN 0 ELSE -1
        /\ op' = "write_timer"
        /\ ret' = 0
        /\ UNCHANGED <<ppuVars, interrupt_requested, intVars, memVars, joyVars, mbcVars, ram_written, cpuVars,
                       instruction_count, prog, cpu_cycles, elapsed, frame_clock,
                       passed, halt_ret, ei_at, arg>>

\* Interconnect::step(cycles): short ticks during the setup, then ticks for
\* as long as a window is open
TimerTickOp(cycles) ==
    /\ \/ elapsed + cycles <= MaxSetup
       \/ since >= 0 /\ cycles > 4
    /\ BusStep(cycles)

TimerNext ==
    \/ \E w \in TimerWrites : TimerWriteOp(w[1], w[2])
    \/ \E c \in TimerCycles : TimerTickOp(c)
    \/ since < 0 /\ elapsed <= MaxSetup /\ WriteIfOp(0)

SpecTimer == InitAll /\ [][TimerNext]_vars

\* C8: once TIMA holds 0xFF with the timer enabled, after exactly 1024, 16,
\* 64 or 256 ticked T-cycles (clock-select 00, 01, 10, 11) TIMA equals TMA
\* and bit 2 of IF is set.
C8_TimaOverflowAfterThreshold ==
    (/\ since >= 0
     /\ since = (CASE And(tac, 3) = 0 -> 1024
                   [] And(tac, 3) = 1 -> 16
                   [] And(tac, 3) = 2 -> 64
                   [] And(tac, 3) = 3 -> 256)) =>
        /\ tima = tma
        /\ Bit(if_register, 2) = 1

\* C8 witness: the window of clock-select 10 has just run its 64 cycles from
\* a TIMA period already under way, and TIMA was reloaded with TMA = 0x80.
C8_Witness ==
    /\ op = "tick"
    /\ since = 64
    /\ tac = 6
    /\ tima_counter # 0
    /\ tma = 128
    /\ tima = 128
    /\ Bit(if_register, 2) = 1


--------------------------------------------------------------------------
(* An MBC1 cartridge read and written through Cartridge::read / write.    *)

\* The number of non-zero bytes the external RAM is let hold
MaxRamCells == 1

\* ROM image sizes: 32 KiB, 512 KiB and 2 MiB; image seeds
RomLens == {32768, 524288, 2097152}
RomSeeds == {0, 5}

\* Addresses and values written, addresses read
MbcWriteAddrs == {0, 8192, 16383, 16384, 24576}
MbcWriteVals == {0, 1, 10, 32, 33, 96}
MbcReadAddrs == {0, 16384, 32767}

\* The history of the last enabled RAM write after a write of val to addr
RamWrittenAfter(addr, val) ==
    IF addr >= 40960 /\ addr <= 49151
    THEN IF ram_enabled THEN <<addr, effective_ram_bank, val, 0>> ELSE ram_written
    ELSE IF addr <= 8191 /\ ram_written # <<>>
    THEN LET on == (And(val, 15) = 10)
             phase == ram_written[4]
         IN  [ram_written EXCEPT ![4] = IF phase = 0 /\ ~on THEN 1
                                        ELSE IF phase = 1 /\ on THEN 2
                                        ELSE phase]
    ELSE ram_written

\* Cartridge::write(addr, val)
MbcWriteOp(addr, val) ==
    LET m == Mbc1Written(addr, val)
    IN  /\ Cardinality(DOMAIN m.ram) <= MaxRamCells
        /\ ram_written' = RamWrittenAfter(addr, val)
        /\ rom_bank' = m.rom_bank
        /\ ram_bank' = m.ram_bank
        /\ ram_enabled' = m.ram_enabled
        /\ banking_mode' = m.banking_mode
        /\ ram' = m.ram
        /\ op' = "mbc_write"
        /\ arg' = <<addr, val>>
        /\ ret' = 0
        /\ UNCHANGED <<ppuVars, timerVars, intVars, memVars, joyVars, cart_type,
                       rom_size_byte, ram_size_byte, rom_len, rom_seed, ram_size,
                       has_battery, cpuVars, instruction_count, prog, cpu_cycles, elapsed, frame_clock,
                       passed, since, halt_ret, ei_at>>

\* Cartridge::read(addr)
MbcReadOp(addr) ==
    /\ op' = "mbc_read"
    /\ arg' = <<addr, 0>>
    /\ ret' = Mbc1Read(addr)
    /\ UNCHANGED <<ppuVars, timerVars, intVars, memVars, joyVars, mbcVars, ram_written, cpuVars,
                   instruction_count, prog, cpu_cycles, elapsed, frame_clock, passed,
                   since, halt_ret, ei_at>>

\* GameBoy::new over an MBC1 cartridge
InitMbc ==
    /\ PpuInit
    /\ TimerInit
    /\ IntInit
    /\ \E len \in RomLens : \E seed \in RomSeeds : MbcInit(len, seed, 0, FALSE)
    /\ CpuInit(<<>>)
    /\ HistoryInit

MbcNext ==
    \/ \E a \in MbcWriteAddrs : \E v \in MbcWriteVals : MbcWriteOp(a, v)
    \/ \E a \in MbcReadAddrs : MbcReadOp(a)

SpecMbc == InitMbc /\ [][MbcNext]_vars

\* C9 as stated: after a write W with W & 0x1F = 0 to 0x2000-0x3FFF, the read
\* at 0x4000 that follows returns the byte at ROM offset 0x4000.
C9_Bank0ReadsBank1 ==
    [][ (/\ op = "mbc_write"
         /\ arg[1] >= 8192 /\ arg[1] <= 16383
         /\ arg[2] % 32 = 0
         /\ op' = "mbc_read"
         /\ arg'[1] = 16384) =>
            ret' = RomByte(16384) ]_vars

\* C9 amended: after a write W with W & 0x1F = 0 to 0x2000-0x3FFF, the read at
\* 0x4000 that follows returns the first byte of bank B, where B = 1 in RAM
\* mode or when the RAM-bank register is 0 and B = (ram_bank << 5) | 1 in ROM
\* mode otherwise; it returns 0xFF when bank B lies beyond the image.
C9_Bank0ReadsLowBankOfGroup ==
    [][ (/\ op = "mbc_write"
         /\ arg[1] >= 8192 /\ arg[1] <= 16383
         /\ arg[2] % 32 = 0
         /\ op' = "mbc_read"
         /\ arg'[1] = 16384) =>
            LET B == IF banking_mode = 1 \/ ram_bank = 0 THEN 1 ELSE ram_bank * 32 + 1
            IN  ret' = IF B * 16384 < rom_len THEN RomByte(B * 16384) ELSE 255 ]_vars

\* C9 witness: with RAM-bank register 1 in ROM mode on a 2 MiB image, bank 0
\* was selected and the read at 0x4000 returned the first byte of bank 33.
C9_Witness ==
    /\ op = "mbc_read"
    /\ arg[1] = 16384
    /\ rom_bank = 0
    /\ ram_bank = 1
    /\ banking_mode = 0
    /\ rom_len = 2097152
    /\ ret = RomByte(33 * 16384)
    /\ ret # RomByte(16384)

\* C10: in every reachable MBC1 state the bank number used for reads in
\* 0x4000-0x7FFF is not 0 (nor any other bank whose low five bits are 0).
C10_EffectiveRomBankNeverZero ==
    /\ effective_rom_bank # 0
    /\ effective_rom_bank % 32 # 0

\* C10 witness: software has selected bank 0 with the RAM-bank register at 0.
C10_Witness ==
    /\ op = "mbc_write"
    /\ rom_bank = 0
    /\ ram_bank = 0
    /\ effective_rom_bank = 1

\* C11: a read at 0x4000-0x7FFF returns the ROM byte at
\* bank * 0x4000 + (addr - 0x4000), bank being the 5-bit rom_bank with 0 read
\* as 1, plus ram_bank << 5 in ROM mode; a read at 0x0000-0x3FFF returns the
\* byte of bank 0 in ROM mode and of bank ram_bank << 5 in RAM mode (0xFF
\* when the offset lies beyond the image).
C11_Mbc1ReadMapping ==
    [][ op' = "mbc_read" =>
          LET addr == arg'[1]
              low == IF rom_bank % 32 = 0 THEN 1 ELSE rom_bank % 32
              bank == IF addr >= 16384
                      THEN low + (IF banking_mode = 0 THEN ram_bank * 32 ELSE 0)
                      ELSE IF banking_mode = 0 THEN 0 ELSE ram_bank * 32
              offset == bank * 16384 + (addr % 16384)
          IN  ret' = IF offset < rom_len THEN RomByte(offset) ELSE 255 ]_vars

\* C11 witness: bank 10 of the third group (bank 74) of a 2 MiB image was read
\* at the top of the switchable window.
C11_Witness ==
    /\ op = "mbc_read"
    /\ arg[1] = 32767
    /\ rom_bank = 10
    /\ ram_bank = 2
    /\ banking_mode = 0
    /\ rom_len = 2097152
    /\ ret = RomByte(74 * 16384 + 16383)


--------------------------------------------------------------------------
(* An MBC1 mapper with external RAM, constructed by Mbc1::new and driven   *)
(* through read, write, save_data and load_data.                           *)

\* External RAM sizes: none, 2 KiB, 8 KiB and 32 KiB
RamSizes == {0, 2048, 8192, 32768}

\* Writes: RAM enable, RAM bank, banking mode and the external RAM window
RamWrites ==
    ({0} \X {0, 26, 171}) \cup ({16384} \X {0, 3}) \cup ({24576} \X {0, 1})
    \cup ({40960, 49151} \X {0, 171})

\* Addresses read: the ends of the external RAM window
RamReadAddrs == {40960, 49151}

\* Images handed to load_data: an empty one and a one-byte one
LoadImages == {[len |-> 0, bytes |-> EmptyRam], [len |-> 1, bytes |-> [q \in {0} |-> 7]]}

\* Stable::save_data
MbcSaveOp ==
    /\ op' = "save_data"
    /\ arg' = <<0, 0>>
    /\ ret' = SaveData.len
    /\ UNCHANGED <<ppuVars, timerVars, intVars, memVars, joyVars, mbcVars, ram_written, cpuVars,
                   instruction_count, prog, cpu_cycles, elapsed, frame_clock, passed,
                   since, halt_ret, ei_at>>

\* Stable::load_data(data)
MbcLoadOp(data) ==
    /\ ram' = LoadData(data)
    /\ ram_written' = <<>>
    /\ op' = "load_data"
    /\ arg' = <<0, data.len>>
    /\ ret' = 0
    /\ UNCHANGED <<ppuVars, timerVars, intVars, memVars, joyVars, cart_type,
                   rom_size_byte, ram_size_byte, rom_len, rom_seed, rom_bank,
                   ram_bank, ram_enabled, banking_mode, ram_size, has_battery, cpuVars,
                   instruction_count, prog, cpu_cycles, elapsed, frame_clock, passed,
                   since, halt_ret, ei_at>>

\* load_data(&save_data())
MbcLoadSavedOp ==
    /\ ram' = LoadData(SaveData)
    /\ op' = "load_saved"
    /\ arg' = <<0, SaveData.len>>
    /\ ret' = 0
    /\ UNCHANGED <<ppuVars, timerVars, intVars, memVars, joyVars, cart_type,
                   rom_size_byte, ram_size_byte, rom_len, rom_seed, rom_bank,
                   ram_bank, ram_enabled, banking_mode, ram_size, has_battery, cpuVars,
                   ram_written, instruction_count, prog, cpu_cycles, elapsed,
                   frame_clock, passed, since, halt_ret, ei_at>>

\* Mbc1::new(rom, ram_size, has_battery) over a 32 KiB image
InitRam ==
    /\ PpuInit
    /\ TimerInit
    /\ IntInit
    /\ \E size \in RamSizes : \E battery \in BOOLEAN : MbcInit(32768, 0, size, battery)
    /\ CpuInit(<<>>)
    /\ HistoryInit

RamNext ==
    \/ \E w \in RamWrites : MbcWriteOp(w[1], w[2])
    \/ \E a \in RamReadAddrs : MbcReadOp(a)
    \/ MbcSaveOp
    \/ \E data \in LoadImages : MbcLoadOp(data)
    \/ MbcLoadSavedOp

SpecRam == InitRam /\ [][RamNext]_vars

\* What C12 says of the RAM window while RAM is disabled and of ram_enabled:
\* a read of 0xA000-0xBFFF with RAM disabled returns 0xFF, a write there with
\* RAM disabled changes nothing, and ram_enabled is true exactly when the
\* last value written to 0x0000-0x1FFF had low nibble 0x0A.
RamGating ==
    /\ (op' = "mbc_read" /\ arg'[1] >= 40960 /\ ~ram_enabled) => ret' = 255
    /\ (op' = "mbc_write" /\ arg'[1] >= 40960 /\ ~ram_enabled) =>
           UNCHANGED <<mbcVars, ram_written>>
    /\ (op' = "mbc_write" /\ arg'[1] <= 8191) =>
           /\ ram_enabled' = (arg'[2] % 16 = 10)
           /\ ram' = ram
    /\ ~(op' = "mbc_write" /\ arg'[1] <= 8191) => ram_enabled' = ram_enabled

\* C12 as stated: RamGating, and a byte written to 0xA000-0xBFFF while RAM was
\* enabled is returned by a read of the same address in the same RAM bank
\* after RAM has been disabled and enabled again.
C12_RamReadBackAlways ==
    [][ /\ RamGating
        /\ (/\ op' = "mbc_read"
            /\ ram_written # <<>>
            /\ ram_written[4] = 2
            /\ ram_enabled
            /\ arg'[1] = ram_written[1]
            /\ effective_ram_bank = ram_written[2]) =>
               ret' = ram_written[3] ]_vars

\* C12 amended: RamGating, and a byte written to 0xA000-0xBFFF while RAM was
\* enabled, at an offset bank * 0x2000 + (addr - 0xA000) that lies inside the
\* external RAM, is returned by a read of the same address in the same RAM
\* bank after RAM has been disabled and enabled again; a write at an offset
\* beyond the RAM (all of them when the cartridge has no RAM) is dropped and
\* the read returns 0xFF.
C12_RamReadBackInsideRam ==
    [][ /\ RamGating
        /\ (/\ op' = "mbc_read"
            /\ ram_written # <<>>
            /\ ram_written[4] = 2
            /\ ram_enabled
            /\ arg'[1] = ram_written[1]
            /\ effective_ram_bank = ram_written[2]) =>
               ret' = IF ram_written[2] * 8192 + (ram_written[1] - 40960) < ram_size
                      THEN ram_written[3]
                      ELSE 255 ]_vars

\* C12 witness: 0xAB was written to 0xBFFF in bank 3 of a 32 KiB RAM, RAM was
\* disabled and enabled again, and the read of 0xBFFF returned 0xAB.
C12_Witness ==
    /\ op = "mbc_read"
    /\ arg[1] = 49151
    /\ ram_size = 32768
    /\ ram_enabled
    /\ ram_written = <<49151, 3, 171, 2>>
    /\ effective_ram_bank = 3
    /\ ret = 171

\* C13: on a cartridge with battery, load_data(save_data()) leaves the
\* external RAM and every register of the mapper as they were.
C13_LoadSavedIsNoOp ==
    [][ (op' = "load_saved" /\ has_battery) => UNCHANGED mbcVars ]_vars

\* C13 witness: the round trip ran on a battery-backed 8 KiB RAM that holds a
\* non-zero byte in its upper half, with RAM enabled in RAM mode.
C13_Witness ==
    /\ op = "load_saved"
    /\ has_battery
    /\ ram_size = 8192
    /\ 8191 \in DOMAIN ram
    /\ ram_enabled
    /\ banking_mode = 1


--------------------------------------------------------------------------
(* The stack: programs of PUSH, POP, CALL, RET and ADD run by              *)
(* GameBoy::step from a stack pointer and register values loaded first.    *)

\* Interconnect::write(address, data)
BusWriteOp(address, data) ==
    /\ SetBus(BusWrite(Bus, address, data))
    /\ op' = "write"
    /\ arg' = <<address, data>>
    /\ ret' = 0
    /\ UNCHANGED <<busFixed, cpuVars, instruction_count, prog, cpu_cycles, elapsed,
                   frame_clock, passed, since, halt_ret, ei_at>>

\* Interconnect::read(address)
BusReadOp(address) ==
    /\ op' = "read"
    /\ arg' = <<address, 0>>
    /\ ret' = BusRead(Bus, address)
    /\ UNCHANGED <<ppuVars, timerVars, intVars, memVars, joyVars, mbcVars, ram_written,
                   cpuVars, instruction_count, prog, cpu_cycles, elapsed, frame_clock,
                   passed, since, halt_ret, ei_at>>

\* Cpu::write_r16(r, val), the register load of LD rr,d16, before the program runs
WriteR16Op(r, val) ==
    /\ instruction_count = 0
    /\ SetCpu(write_r16(Cpu, r, val))
    /\ op' = "write_r16"
    /\ arg' = <<0, val>>
    /\ ret' = 0
    /\ UNCHANGED <<ppuVars, timerVars, intVars, memVars, joyVars, mbcVars, ram_written,
                   instruction_count, prog, cpu_cycles, elapsed, frame_clock, passed,
                   since, halt_ret, ei_at>>

\* A CALL at 0x0100 whose operand bytes in the image are 0x01, 0x02, and a RET
\* at its target 0x0201
CallProgram ==
    [i \in 1..258 |-> IF i = 1 THEN "Call_a16" ELSE IF i = 258 THEN "Ret" ELSE "Nop"]

\* Programs held by the cartridge from 0x0100 on
StackPrograms ==
    { <<"Push_Bc", "Pop_De", "Push_Af", "Pop_Bc">>,
      <<"Push_Bc", "Pop_Af", "Push_Af", "Pop_Hl">>,
      <<"Push_Bc", "Pop_Af", "Add_A_d8", "Nop", "Push_Af">>,
      CallProgram }

\* Stack pointers loaded: HRAM, the wrap at 0, ROM, VRAM, external RAM, WRAM,
\* the echo boundary, OAM, the unusable region, and the registers DIV/TIMA,
\* IF and DMA/BGP
StackPointers ==
    {65534, 0, 1, 16384, 32770, 40962, 49154, 57345, 65026, 65186, 65286, 65296, 65352}

\* Values loaded into BC
StackValues == {0, 4660, 43983, 65535}

\* GameBoy::new over an MBC1 cartridge with 8 KiB of RAM holding a program
InitStack ==
    /\ PpuInit
    /\ TimerInit
    /\ IntInit
    /\ MbcInit(32768, 0, 8192, FALSE)
    /\ \E p \in StackPrograms : CpuInit(p)
    /\ HistoryInit

StackNext ==
    \/ GameBoyStep
    \/ \E v \in StackPointers : WriteR16Op("SP", v)
    \/ \E v \in StackValues : WriteR16Op("BC", v)
    \/ (instruction_count = 0 /\ ~ram_enabled /\ BusWriteOp(0, 10))

SpecStack == InitStack /\ [][StackNext]_vars

PushOpcodes == {"Push_Bc", "Push_De", "Push_Hl", "Push_Af"}
PopOpcodes == {"Pop_Bc", "Pop_De", "Pop_Hl", "Pop_Af"}

\* The bus stores a byte written to the address and reads it back unchanged:
\* VRAM, WRAM and its echo, OAM, the stubbed I/O registers, HRAM and IE.
PlainMemory(address) ==
    \/ address >= 32768 /\ address <= 40959
    \/ address >= 49152 /\ address <= 65183
    \/ address >= 65281 /\ address <= 65283
    \/ address >= 65288 /\ address <= 65294
    \/ address >= 65296 /\ address <= 65343
    \/ address >= 65356

\* The register pair r of the Cpu after the step
PairAfter(r) ==
    CASE r = "BC" -> regs_bc'
      [] r = "DE" -> regs_de'
      [] r = "HL" -> regs_hl'
      [] r = "AF" -> regs_af'

\* A step that executes a POP right after a step that executed a PUSH
PopAfterPush ==
    /\ op = "step"
    /\ OpcodeAt(arg[1]) \in PushOpcodes
    /\ op' = "step"
    /\ OpcodeAt(reg_pc) \in PopOpcodes

\* C14 as stated: for every SP and every pushed value v, the POP that
\* follows a PUSH leaves SP as it was before the PUSH and returns v, POP AF
\* returning v with its low nibble cleared.
C14_PushPopAnySp ==
    [][ PopAfterPush =>
          LET v == read_r16_stack(Cpu, StackReg(OpcodeAt(arg[1])))
              r == StackReg(OpcodeAt(reg_pc))
          IN  /\ reg_sp' = arg[2]
              /\ PairAfter(r) = IF r = "AF" THEN And(v, 65520) ELSE v ]_vars

\* C14 amended: for every SP and every pushed value v, the POP that follows a
\* PUSH leaves SP as it was before the PUSH; it returns v (POP AF: v with its
\* low nibble cleared, the flags taken from bits 7-4) whenever the two stack
\* bytes at SP-1 and SP-2 lie in memory that stores what is written to it.
C14_PushPopInMemory ==
    [][ PopAfterPush =>
          LET v == read_r16_stack(Cpu, StackReg(OpcodeAt(arg[1])))
              r == StackReg(OpcodeAt(reg_pc))
          IN  /\ reg_sp' = arg[2]
              /\ (PlainMemory(reg_sp) /\ PlainMemory((reg_sp + 1) % 65536)) =>
                    /\ PairAfter(r) = IF r = "AF" THEN And(v, 65520) ELSE v
                    /\ r = "AF" => FlagsByte(flags') = And(v, 240) ]_vars

\* C14 witness: 0xABCF was pushed from BC with SP = 0xC002 and popped into AF
\* as 0xABC0.
C14_Witness ==
    /\ op = "step"
    /\ OpcodeAt(arg[1]) = "Pop_Af"
    /\ reg_sp = 49154
    /\ regs_bc = 43983
    /\ regs_af = 43968
    /\ flags = [z |-> TRUE, n |-> TRUE, h |-> FALSE, c |-> FALSE]


C16_InitialCpuState ==
    op = "new" =>
        /\ reg_pc = 256
        /\ reg_sp = 65534
        /\ af(Cpu) = 432
        /\ regs_bc = 19
        /\ regs_de = 216
        /\ regs_hl = 333
        /\ ~ime
        /\ ~halted

\* C17 as stated: at every instruction boundary the low byte of af() and the
\* F byte PUSH AF stores both equal Z<<7 | N<<6 | H<<5 | C<<4, low nibble 0.
C17_FRegisterIsFlags ==
    /\ af(Cpu) % 256 = FlagsByte(flags)
    /\ read_r16_stack(Cpu, "AF") % 256 = FlagsByte(flags)
    /\ af(Cpu) % 16 = 0


--------------------------------------------------------------------------
(* The IF register written and read over the bus, with interrupts          *)
(* requested and cleared and the bus ticked.                               *)

\* Values written to IF, and masks passed to request_interrupt and
\* clear_interrupt
IfWrites == {0, 31, 255}
IfRequests == {1, 16, 128}
IfClears == {1, 224, 255}

\* Interconnect::request_interrupt(interrupt)
RequestInterruptOp(interrupt) ==
    /\ if_register' = Or(if_register, interrupt)
    /\ op' = "request_interrupt"
    /\ ret' = 0
    /\ UNCHANGED <<ppuVars, timerVars, ie_register, memVars, joyVars, mbcVars,
                   ram_written, cpuVars, instruction_count, prog, cpu_cycles, elapsed,
                   frame_clock, passed, since, halt_ret, ei_at, arg>>

IfNext ==
    \/ \E v \in IfWrites : WriteIfOp(v)
    \/ \E i \in IfRequests : RequestInterruptOp(i)
    \/ \E i \in IfClears : ClearInterruptOp(i)
    \/ \E c \in TickCycles : TickOp(c)
    \/ BusReadOp(65295)

SpecIf == InitAll /\ [][IfNext]_vars

\* C18: whatever was written to 0xFF0F, requested, cleared or ticked, a read
\* of 0xFF0F returns a byte whose bits 7, 6 and 5 are 1.
C18_IfReadsUpperBitsSet ==
    /\ And(BusRead(Bus, 65295), 224) = 224
    /\ (op = "read" /\ arg[1] = 65295) => And(ret, 224) = 224

\* C18 witness: the stored upper bits had been cleared by clear_interrupt and
\* a tick had raised bit 0; the read of 0xFF0F returned 0xE1.
C18_Witness ==
    /\ op = "read"
    /\ arg[1] = 65295
    /\ if_register = 1
    /\ ret = 225


--------------------------------------------------------------------------
(* OAM DMA: bytes stored over the bus, then a write to 0xFF46.             *)

\* Writes that prepare the source areas, <<address, value>>: cartridge RAM
\* enabled and written, VRAM, the first and the last WRAM byte of a transfer
\* and the one after it, the echo of WRAM, OAM itself and HRAM.
DmaSetup ==
    {<<0, 10>>, <<40961, 51>>, <<32768, 34>>, <<49152, 17>>, <<49311, 176>>,
     <<49312, 119>>, <<65029, 68>>, <<65408, 85>>}

\* Values written to 0xFF46: ROM bank 0 and the switchable bank, VRAM,
\* cartridge RAM, WRAM, its echo, the OAM page and the register page.
DmaSources == {0, 64, 128, 160, 192, 224, 254, 255}

InitDma ==
    /\ PpuInit
    /\ TimerInit
    /\ IntInit
    /\ MbcInit(32768, 0, 8192, FALSE)
    /\ CpuInit(<<>>)
    /\ HistoryInit

DmaNext ==
    \/ \E w \in DmaSetup : (op = "write" => arg[1] # 65350) /\ BusWriteOp(w[1], w[2])
    \/ \E v \in DmaSources : BusWriteOp(65350, v)

SpecDma == InitDma /\ [][DmaNext]_vars

\* C19: a write of V to 0xFF46 leaves in OAM[i], for every i in 0..159, the
\* byte a bus read of V*0x100 + i returned before the write, and changes
\* nothing else the bus holds: VRAM, WRAM, HRAM, the stubbed I/O registers,
\* cartridge RAM and banking, PPU, timer, joypad and interrupt registers.
C19_OamDmaCopies ==
    [][ (op' = "write" /\ arg'[1] = 65350) =>
          /\ \A i \in 0..159 : VecGet(oam', i, 0) = BusRead(Bus, arg'[2] * 256 + i)
          /\ UNCHANGED <<vram, wram, hram, io_registers, ppuVars, timerVars, intVars,
                         joyVars, mbcVars>> ]_vars

\* C19 witness: the transfer from 0xC000 copied the first and the last of
\* the 160 WRAM bytes and not the byte after them.
C19_Witness ==
    /\ op = "write"
    /\ arg = <<65350, 192>>
    /\ VecGet(wram, 160, 0) = 119
    /\ VecGet(oam, 0, 0) = 17
    /\ VecGet(oam, 159, 0) = 176
    /\ VecGet(oam, 5, 0) = 0


--------------------------------------------------------------------------
(* The joypad: buttons pressed and released by the host, 0xFF00 written    *)
(* and read over the bus.                                                  *)

\* Values written to 0xFF00: the four select states, and bytes with other
\* bits set
JoypadWrites == {0, 16, 32, 48, 207, 255}

\* Interconnect::press_button(button)
PressOp(button) ==
    /\ SetBus(JoypadPress(Bus, button))
    /\ op' = "press"
    /\ arg' = <<ButtonBit(button), 0>>
    /\ ret' = 0
    /\ UNCHANGED <<busFixed, cpuVars, instruction_count, prog, cpu_cycles, elapsed,
                   frame_clock, passed, since, halt_ret, ei_at>>

\* Interconnect::release_button(button)
ReleaseOp(button) ==
    /\ SetBus(JoypadRelease(Bus, button))
    /\ op' = "release"
    /\ arg' = <<ButtonBit(button), 0>>
    /\ ret' = 0
    /\ UNCHANGED <<busFixed, cpuVars, instruction_count, prog, cpu_cycles, elapsed,
                   frame_clock, passed, since, halt_ret, ei_at>>

JoypadNext ==
    \/ \E button \in Buttons : PressOp(button)
    \/ \E button \in Buttons : ReleaseOp(button)
    \/ \E v \in JoypadWrites : BusWriteOp(65280, v)
    \/ BusReadOp(65280)

SpecJoypad == InitAll /\ [][JoypadNext]_vars

\* C20: a read of 0xFF00 returns bits 7 and 6 set, in bits 5-4 the select
\* bits of the last write (both set before any write), and in each of bits
\* 3-0 a 1 unless a selected group (select bit 0) has that button pressed
\* (nibble bit 0); a write of v stores bits 5-4 of v as the select state and
\* changes no button; nothing but a write changes the select state.
C20_JoypadReadWrite ==
    [][ /\ (op' = "read" /\ arg'[1] = 65280) =>
              /\ Bit(ret', 7) = 1 /\ Bit(ret', 6) = 1
              /\ Bit(ret', 5) = Bit(select, 5) /\ Bit(ret', 4) = Bit(select, 4)
              /\ \A k \in 0..3 :
                    Bit(ret', k) = 1 <=>
                        /\ (Bit(select, 4) = 0 => Bit(direction_buttons, k) = 1)
                        /\ (Bit(select, 5) = 0 => Bit(action_buttons, k) = 1)
        /\ (op' = "write" /\ arg'[1] = 65280) =>
              /\ select' = 32 * Bit(arg'[2], 5) + 16 * Bit(arg'[2], 4)
              /\ UNCHANGED <<direction_buttons, action_buttons>>
        /\ (op' # "write") => UNCHANGED select ]_vars

\* C20 witness: both groups selected, Right and B pressed: the read
\* returned 0xCC.
C20_Witness ==
    /\ op = "read"
    /\ arg[1] = 65280
    /\ select = 0
    /\ direction_buttons = 14
    /\ action_buttons = 13
    /\ ret = 204


--------------------------------------------------------------------------
(* DIV written over the bus and the bus ticked.                            *)

\* T-cycles ticked in a behaviour
MaxDivCycles == 600

\* Values written to 0xFF04
DivWrites == {0, 1, 171, 255}

\* Cycle counts passed to Interconnect::step: 4 and 256; one short of a DIV
\* period from its start, and the one cycle that completes it.
DivCycles ==
    {4, 256}
    \cup (IF since >= 0 /\ since % 256 = 0 THEN {255} ELSE {})
    \cup (IF since >= 0 /\ since % 256 = 255 THEN {1} ELSE {})

\* Interconnect::write(0xFF04, val); since counts the T-cycles ticked after it
DivWriteOp(val) ==
    /\ SetBus(BusWrite(Bus, 65284, val))
    /\ since' = 0
    /\ op' = "write"
    /\ arg' = <<65284, val>>
    /\ ret' = 0
    /\ UNCHANGED <<busFixed, cpuVars, instruction_count, prog, cpu_cycles, elapsed,
                   frame_clock, passed, halt_ret, ei_at>>

\* Interconnect::step(cycles), within the horizon
DivTickOp(cycles) ==
    /\ elapsed + cycles <= MaxDivCycles
    /\ BusStep(cycles)

DivNext ==
    \/ \E v \in DivWrites : DivWriteOp(v)
    \/ \E c \in DivCycles : DivTickOp(c)
    \/ BusReadOp(65284)

SpecDiv == InitAll /\ [][DivNext]_vars

\* C22: after a write of any value to 0xFF04 the 16-bit divider holds the
\* number of T-cycles ticked since the write: DIV reads 0 right after the
\* write and until 256 T-cycles have been ticked, and reads 1 from the 256th
\* to the 511th.
C22_DivResetByWrite ==
    since >= 0 =>
        /\ div_counter = since
        /\ since < 256 => BusRead(Bus, 65284) = 0
        /\ (since >= 256 /\ since < 512) => BusRead(Bus, 65284) = 1
        /\ (op = "read" /\ since < 256) => ret = 0

\* C22 witness: 0xAB was written to 0xFF04 when DIV read 1 (260 T-cycles
\* after power-on), and 256 T-cycles later DIV reads 1 again.
C22_Witness ==
    /\ op = "tick"
    /\ arg = <<65284, 171>>
    /\ since = 256
    /\ elapsed = 516
    /\ BusRead(Bus, 65284) = 1


--------------------------------------------------------------------------
(* Cartridge::new over images whose header bytes vary, and the cartridge   *)
(* it returns read and written over the bus.                               *)

\* Header bytes 0x147, 0x148 and 0x149 of the images: no mapper, MBC1, MBC1
\* with RAM and battery, and a type no mapper has; 32 KiB and a ROM size no
\* image has; no RAM, 8 KiB, 32 KiB and a RAM size no cartridge has.
HeaderTypes == {0, 1, 3, 4}
HeaderRomSizes == {0, 9}
HeaderRamSizes == {0, 2, 3, 6}

\* GameBoy::new(rom): Interconnect::new builds the cartridge first, and
\* nothing is built when Cartridge::new panics.
InitLoader ==
    /\ PpuInit
    /\ TimerInit
    /\ IntInit
    /\ \E type \in HeaderTypes : \E rom_code \in HeaderRomSizes :
         \E ram_code \in HeaderRamSizes :
            /\ CartridgeNew(32768, 0, type, rom_code, ram_code)
            /\ HistoryAfter(IF Supported(type) THEN "new" ELSE "panic", type)
    /\ CpuInit(<<>>)

\* Reads and writes of the cartridge that was built: the header bytes, the
\* RAM enable register and the first byte of external RAM
LoaderNext ==
    \/ \E a \in {327, 328, 329, 40960} : op # "panic" /\ BusReadOp(a)
    \/ \E w \in {<<0, 10>>, <<40960, 90>>} : op # "panic" /\ BusWriteOp(w[1], w[2])

SpecLoader == InitLoader /\ [][LoaderNext]_vars

\* The header bytes that name a mapper (one this loader builds), a ROM size
\* (32 KiB << n for n up to 8) and a RAM size (the six sizes of the table)
KnownHeader ==
    /\ Supported(RomByte(327))
    /\ RomByte(328) \in 0..8
    /\ RomByte(329) \in 0..5

\* C23: when the byte at 0x147, at 0x148 or at 0x149 of the image is not a
\* known one, construction fails: no cartridge exists, none is ever read or
\* written.
C23_UnknownHeaderIsFatal == ~KnownHeader => op = "panic"


--------------------------------------------------------------------------
(* DAA executed from every A and every flag combination, directly and      *)
(* after ADD A,0x38.                                                       *)

\* Instructions executed in a behaviour
MaxAluSteps == 2

\* The registers after Cpu::new and a POP AF of the value v
CpuWithAf(v) == write_r16_stack(CpuNew, "AF", v)

\* The values of AF: every A with every combination of the four flags
AfValues == {a * 256 + f * 16 : a \in 0..255, f \in 0..15}

\* GameBoy::new over an image whose byte at 0x0100 is 0x38, AF loaded
InitDaa ==
    /\ PpuInit
    /\ TimerInit
    /\ IntInit
    /\ MbcInit(32768, 56, 0, FALSE)
    /\ \E v \in AfValues : CpuIs(CpuWithAf(v))
    /\ HistoryInit

DaaNext ==
    \/ instruction_count < MaxAluSteps /\ ExecuteOpcodeOp("Daa")
    \/ instruction_count = 0 /\ ExecuteOpcodeOp("Add_A_d8")

SpecDaa == InitDaa /\ [][DaaNext]_vars

\* A after the 0x60 step of DAA, and after its 0x06 step
DaaFirst(a, f) ==
    IF ~f.n THEN (IF f.c \/ a > 153 THEN (a + 96) % 256 ELSE a)
    ELSE (IF f.c THEN (a + 160) % 256 ELSE a)

DaaSecond(a1, f) ==
    IF ~f.n THEN (IF f.h \/ a1 % 16 > 9 THEN (a1 + 6) % 256 ELSE a1)
    ELSE (IF f.h THEN (a1 + 250) % 256 ELSE a1)

\* C24: DAA from A and flags (Z, N, H, C) leaves A adjusted: with N = 0,
\* A + 0x60 and C = 1 if C or A > 0x99, then + 0x06 if H or the low nibble
\* is above 9; with N = 1, A - 0x60 if C, then - 0x06 if H, C as it was;
\* and Z = (A = 0), H = 0, N as it was.  Arithmetic is modulo 256.
C24_DaaAdjusts ==
    [][ op' = "Daa" =>
          LET a == get_reg_a(Cpu)
              a2 == DaaSecond(DaaFirst(a, flags), flags)
          IN  /\ regs_af' \div 256 = a2
              /\ flags'.z = (a2 = 0)
              /\ flags'.n = flags.n
              /\ flags'.h = FALSE
              /\ flags'.c = (flags.c \/ (~flags.n /\ a > 153))
              /\ cpu_cycles' = 4 ]_vars

\* C24 witness: ADD A,0x38 left A = 0x7D with no flag set, and DAA left
\* A = 0x83 with no flag set.
C24_Witness ==
    /\ op = "Daa"
    /\ instruction_count = 2
    /\ arg = <<125, 0>>
    /\ get_reg_a(Cpu) = 131
    /\ FlagsByte(flags) = 0


--------------------------------------------------------------------------
(* The PPU stepped to the first and the last cycle of every mode of every  *)
(* scanline, with the LCD switched off and on.                             *)

\* The intra-scanline cycles at which a mode begins or ends
ModeEdges == {0, OAM_SCAN_END - 1, OAM_SCAN_END, DRAWING_END - 1, DRAWING_END,
              CYCLES_PER_SCANLINE - 1}

\* Cycle counts passed to step: none, those that stop at an edge within the
\* next scanline's length, a scanline, the time to VBlank entry and a frame
ModeCycles ==
    {0, CYCLES_PER_SCANLINE, VBlankEntryCycle, CYCLES_PER_FRAME}
    \cup {c \in 1..CYCLES_PER_SCANLINE :
              (scanline_cycles + c) % CYCLES_PER_SCANLINE \in ModeEdges}

PpuModeNext ==
    \/ \E c \in ModeCycles : PpuStepOp(c)
    \/ \E v \in LcdcVals : PpuWriteLcdcOp(v)

SpecPpuMode == InitAll /\ [][PpuModeNext]_vars

\* C25: after a step of the PPU with the LCD enabled, LY is in 0..153, the
\* intra-scanline accumulator is in 0..455, and the mode is VBlank when
\* LY >= 144, else OamScan for an accumulator in [0,80), Drawing in [80,252)
\* and HBlank in [252,456).
C25_PositionAndMode ==
    (op = "ppu_step" /\ lcd_enabled(lcdc)) =>
        /\ ly \in 0..153
        /\ scanline_cycles \in 0..455
        /\ ly >= 144 => mode = VBlank
        /\ (ly < 144 /\ scanline_cycles < 80) => mode = OamScan
        /\ (ly < 144 /\ scanline_cycles >= 80 /\ scanline_cycles < 252) => mode = Drawing
        /\ (ly < 144 /\ scanline_cycles >= 252) => mode = HBlank

\* C25 witness: the step stopped on the first Drawing cycle of the last
\* visible line, after the LCD had shown a frame.
C25_Witness ==
    /\ op = "ppu_step"
    /\ lcd_enabled(lcdc)
    /\ frame_ready
    /\ ly = 143
    /\ scanline_cycles = 80
    /\ mode = Drawing


--------------------------------------------------------------------------
(* Cartridges without mapper and with MBC1, over images and external RAM   *)
(* of several sizes, read in every state of the bank registers.            *)

\* Image lengths (16 KiB, 32 KiB, 64 KiB) and RAM-size bytes of the header
\* (none, 2 KiB, 8 KiB, 32 KiB)
CartLens == {16384, 32768, 65536}
CartRamSizes == {0, 1, 2, 3}

\* Register writes: RAM enable, ROM bank, RAM bank, banking mode
CartWrites ==
    {<<0, 10>>, <<0, 0>>, <<8192, 0>>, <<8192, 3>>, <<8192, 4>>, <<16384, 0>>,
     <<16384, 1>>, <<16384, 3>>, <<24576, 0>>, <<24576, 1>>}

\* Addresses read: the ends of the two ROM windows and of the RAM window, and
\* an address outside the cartridge's windows
CartReads == {0, 16383, 16384, 32767, 40960, 43008, 49151, 32768}

\* Cartridge::read(addr)
CartReadOp(addr) ==
    /\ op' = "cart_read"
    /\ arg' = <<addr, 0>>
    /\ ret' = CartridgeRead(Bus, addr)
    /\ UNCHANGED <<ppuVars, timerVars, intVars, memVars, joyVars, mbcVars, ram_written,
                   cpuVars, instruction_count, prog, cpu_cycles, elapsed, frame_clock,
                   passed, since, halt_ret, ei_at>>

\* Cartridge::write(addr, val)
CartWriteOp(addr, val) ==
    /\ SetBus(CartridgeWrite(Bus, addr, val))
    /\ op' = "cart_write"
    /\ arg' = <<addr, val>>
    /\ ret' = 0
    /\ UNCHANGED <<busFixed, cpuVars, instruction_count, prog, cpu_cycles, elapsed,
                   frame_clock, passed, since, halt_ret, ei_at>>

InitCart ==
    /\ PpuInit
    /\ TimerInit
    /\ IntInit
    /\ \E len \in CartLens : \E type \in {0, 1} : \E ram_code \in CartRamSizes :
            CartridgeNew(len, 0, type, 0, ram_code)
    /\ CpuInit(<<>>)
    /\ HistoryInit

CartNext ==
    \/ \E w \in CartWrites : CartWriteOp(w[1], w[2])
    \/ \E a \in CartReads : CartReadOp(a)

SpecCart == InitCart /\ [][CartNext]_vars

\* The offset into the ROM image, or into external RAM, that a read of addr
\* computes: the address for an image without mapper; for MBC1 the address,
\* moved up by (RAM bank << 5) banks in mode 1, in the fixed window, the
\* effective ROM bank (never a multiple of 32) in the switchable window, and
\* the RAM bank of mode 1 in the RAM window.
CartOffset(addr) ==
    LET low5 == rom_bank % 32
        bank == (IF banking_mode = 0 THEN ram_bank * 32 ELSE 0)
                + (IF low5 = 0 THEN 1 ELSE low5)
    IN  IF addr <= 16383
        THEN (IF cart_type # 0 /\ banking_mode = 1 THEN ram_bank * 32 * 16384 ELSE 0) + addr
        ELSE IF addr <= 32767
        THEN (IF cart_type = 0 THEN addr ELSE bank * 16384 + (addr - 16384))
        ELSE (IF banking_mode = 1 THEN ram_bank ELSE 0) * 8192 + (addr - 40960)

\* C26: a cartridge read returns a byte, and 0xFF when the offset it computes
\* lies beyond the ROM image (ROM windows) or beyond the external RAM (RAM
\* window, RAM enabled), for images without mapper and with MBC1 in every
\* state of the bank registers.
C26_ReadsBeyondImageAreFF ==
    op = "cart_read" =>
        /\ ret \in 0..255
        /\ (arg[1] <= 32767 /\ CartOffset(arg[1]) >= rom_len) => ret = 255
        /\ (arg[1] >= 40960 /\ arg[1] <= 49151 /\ cart_type # 0 /\ ram_enabled
              /\ CartOffset(arg[1]) >= ram_size) => ret = 255

\* C26 witness: MBC1 over a 32 KiB image with ROM bank 3 selected; the read
\* of 0x4000 computes offset 0xC000 and returned 0xFF.
C26_Witness ==
    /\ op = "cart_read"
    /\ cart_type = 1
    /\ rom_len = 32768
    /\ rom_bank = 3
    /\ arg[1] = 16384
    /\ ret = 255


--------------------------------------------------------------------------
(* EI, DI and RETI executed by GameBoy::step, with handle_interrupts       *)
(* called between instructions and IF and IE written.                      *)

\* Programs held by the cartridge from 0x0100 on: DI right after EI, DI
\* after the enable was committed, and RETI after DI
ImePrograms ==
    { <<"Ei", "Di", "Nop", "Nop">>,
      <<"Ei", "Nop", "Di", "Ei">>,
      <<"Di", "Reti", "Nop", "Nop">> }

InitIme ==
    /\ PpuInit
    /\ TimerInit
    /\ IntInit
    /\ MbcInit(32768, 0, 0, FALSE)
    /\ \E p \in ImePrograms : CpuInit(p)
    /\ HistoryInit

ImeNext ==
    \/ GameBoyStep
    \/ HandleInterruptsOp
    \/ \E v \in IfVals : WriteIfOp(v)
    \/ \E v \in IeVals : WriteIeOp(v)

SpecIme == InitIme /\ [][ImeNext]_vars

\* The step that is taken executes the opcode
Executes(opcode) == op' = "step" /\ OpcodeAt(reg_pc) = opcode

C28_DiBlocksDispatch ==
    [][ /\ Executes("Di") => (~ime' /\ ~ime_pending')
        /\ (~ime /\ ~ime_pending /\ ~Executes("Ei") /\ ~Executes("Reti")) =>
              /\ ~ime' /\ ~ime_pending'
              /\ op' = "handle_interrupts" =>
                    /\ ret' = 0
                    /\ UNCHANGED <<reg_pc, reg_sp, if_register>> ]_vars

\* C28 witness: DI was executed right after EI, interrupts are pending and
\* enabled in IE, and handle_interrupts returned 0.
C28_Witness ==
    /\ op = "handle_interrupts"
    /\ ret = 0
    /\ prog = <<"Ei", "Di", "Nop", "Nop">>
    /\ instruction_count = 2
    /\ pending_interrupts # 0
    /\ reg_pc = 258
    /\ ~ime


--------------------------------------------------------------------------
(* ADD, ADC, SUB, SBC and CP with an immediate operand, executed from      *)
(* every A, with and without incoming carry.                               *)

AluOpcodes == {"Add_A_d8", "Adc_A_d8", "Sub_A_d8", "Sbc_A_d8", "Cp_A_d8"}

\* Operand bytes: low and high nibbles 0, 1, 7, 8, 14 and 15
AluNibbles == {0, 1, 7, 8, 14, 15}
AluOperands == {16 * i + j : i \in AluNibbles, j \in AluNibbles}

\* The values of AF: every A with no flag, with the carry flag alone and
\* with all four flags
AluAfValues == {a * 256 + f * 16 : a \in 0..255, f \in {0, 1, 15}}

\* GameBoy::new over an image whose byte at 0x0100 is the operand, AF loaded
InitAlu ==
    /\ PpuInit
    /\ TimerInit
    /\ IntInit
    /\ \E x \in AluOperands : MbcInit(32768, x, 0, FALSE)
    /\ \E v \in AluAfValues : CpuIs(CpuWithAf(v))
    /\ HistoryInit

AluNext == \E o \in AluOpcodes : instruction_count = 0 /\ ExecuteOpcodeOp(o)

SpecAlu == InitAlu /\ [][AluNext]_vars

\* C29: for A, the operand x at PC and the incoming carry (counted by ADC
\* and SBC only), the operation leaves the 8-bit sum or difference in A (CP
\* leaves A alone), Z = (result = 0), N = 0 for ADD/ADC and 1 for SUB/SBC/CP,
\* H = the carry or borrow into bit 4 (bit 4 of A xor x xor result) and
\* C = the carry or borrow out of bit 7.
C29_AluFlags ==
    [][ op' \in AluOpcodes =>
          LET a == get_reg_a(Cpu)
              x == BusRead(Bus, reg_pc)
              cin == IF op' \in {"Adc_A_d8", "Sbc_A_d8"} /\ flags.c THEN 1 ELSE 0
              adds == op' \in {"Add_A_d8", "Adc_A_d8"}
              full == IF adds THEN a + x + cin ELSE a - x - cin
              result == (full + 512) % 256
          IN  /\ regs_af' \div 256 = (IF op' = "Cp_A_d8" THEN a ELSE result)
              /\ flags'.z = (result = 0)
              /\ flags'.n = ~adds
              /\ flags'.h = ((Bit(a, 4) + Bit(x, 4) + Bit(result, 4)) % 2 = 1)
              /\ flags'.c = (full > 255 \/ full < 0) ]_vars

\* C29 witness: SBC A,0x0F from A = 0x10 with carry set left A = 0 with
\* Z, N and H set and C clear.
C29_Witness ==
    /\ op = "Sbc_A_d8"
    /\ arg = <<16, 16>>
    /\ rom_seed = 15
    /\ get_reg_a(Cpu) = 0
    /\ FlagsByte(flags) = 224


--------------------------------------------------------------------------
(* ADD SP,r8 and LD HL,SP+r8 executed for every offset byte.               *)

\* Stack pointers: the pages 0x00, 0x01, 0x7F and 0xFF with the low bytes of
\* AluOperands
SpValues == {256 * hi + lo : hi \in {0, 1, 127, 255}, lo \in AluOperands}

\* GameBoy::new over an image whose byte at 0x0100 is the offset, SP loaded
InitSp ==
    /\ PpuInit
    /\ TimerInit
    /\ IntInit
    /\ \E x \in 0..255 : MbcInit(32768, x, 0, FALSE)
    /\ \E v \in SpValues : CpuIs(write_r16(CpuNew, "SP", v))
    /\ HistoryInit

SpNext ==
    \E o \in {"Add_Sp_r8", "Ld_Hl_SpPlusr8"} :
        instruction_count = 0 /\ ExecuteOpcodeOp(o)

SpecSp == InitSp /\ [][SpNext]_vars

\* C30: with x the offset byte at PC read as a signed number, ADD SP,r8
\* leaves SP + x modulo 2^16 in SP, and LD HL,SP+r8 leaves it in HL with SP
\* as it was; both leave Z = 0 and N = 0, H = the carry out of bit 3 and
\* C = the carry out of bit 7 of the sum of SP's low byte and the offset
\* byte (the carries into bit 4 and into bit 8 of the 16-bit sum).
C30_SpPlusOffset ==
    [][ op' \in {"Add_Sp_r8", "Ld_Hl_SpPlusr8"} =>
          LET x == BusRead(Bus, reg_pc)
              negative == IF x >= 128 THEN 1 ELSE 0
              sum == (reg_sp + x - 256 * negative + 65536) % 65536
          IN  /\ IF op' = "Add_Sp_r8" THEN reg_sp' = sum /\ regs_hl' = regs_hl
                                       ELSE regs_hl' = sum /\ reg_sp' = reg_sp
              /\ ~flags'.z /\ ~flags'.n
              /\ flags'.h = ((Bit(reg_sp, 4) + Bit(x, 4) + Bit(sum, 4)) % 2 = 1)
              /\ flags'.c = ((Bit(reg_sp, 8) + negative + Bit(sum, 8)) % 2 = 1) ]_vars

\* C30 witness: ADD SP,-1 from SP = 0x0101 left SP = 0x0100 with H and C
\* set.
C30_Witness ==
    /\ op = "Add_Sp_r8"
    /\ rom_seed = 255
    /\ reg_sp = 256
    /\ FlagsByte(flags) = 48


--------------------------------------------------------------------------
(* The conditional JR, RET, JP and CALL executed with every combination of *)
(* the flags.                                                              *)

JrOpcodes == {"Jr_Nz_r8", "Jr_Z_r8", "Jr_Nc_r8", "Jr_C_r8"}
RetOpcodes == {"Ret_Nz", "Ret_Z", "Ret_Nc", "Ret_C"}
JpOpcodes == {"Jp_Nz_a16", "Jp_Z_a16", "Jp_Nc_a16", "Jp_C_a16"}
CallOpcodes == {"Call_Nz_a16", "Call_Z_a16", "Call_Nc_a16", "Call_C_a16"}
BranchOpcodes == JrOpcodes \union RetOpcodes \union JpOpcodes \union CallOpcodes

\* The byte of the image at 0x0100, the first operand byte (the second one
\* is the next value modulo 256)
BranchOperands == {0, 1, 5, 127, 128, 129, 254, 255}

\* Stack pointers: HRAM, WRAM and the wrap at 0 (a pop reads the image, a
\* push writes IE and the top of HRAM)
BranchStacks == {65534, 49154, 0}

\* The values of AF: A = 0 with every combination of the four flags
BranchAfValues == {f * 16 : f \in 0..15}

\* GameBoy::new over an image whose bytes at 0x0100 and 0x0101 are the
\* operand, the flags and SP loaded
InitBranch ==
    /\ PpuInit
    /\ TimerInit
    /\ IntInit
    /\ \E x \in BranchOperands : MbcInit(32768, x, 0, FALSE)
    /\ \E v \in BranchAfValues, s \in BranchStacks :
          CpuIs(write_r16(CpuWithAf(v), "SP", s))
    /\ HistoryInit

BranchNext == \E o \in BranchOpcodes : instruction_count = 0 /\ ExecuteOpcodeOp(o)

SpecBranch == InitBranch /\ [][BranchNext]_vars

\* The condition an opcode names holds for the flags f
ConditionHolds(opcode, f) ==
    \/ opcode \in {"Jr_Nz_r8", "Ret_Nz", "Jp_Nz_a16", "Call_Nz_a16"} /\ ~f.z
    \/ opcode \in {"Jr_Z_r8", "Ret_Z", "Jp_Z_a16", "Call_Z_a16"} /\ f.z
    \/ opcode \in {"Jr_Nc_r8", "Ret_Nc", "Jp_Nc_a16", "Call_Nc_a16"} /\ ~f.c
    \/ opcode \in {"Jr_C_r8", "Ret_C", "Jp_C_a16", "Call_C_a16"} /\ f.c

\* C31: a conditional JR, JP, CALL or RET returns 12, 16, 24 or 20 T-cycles
\* when its condition holds and 8, 12, 12 or 8 when it does not; when it
\* does not, PC is left just past the operand bytes (one for JR, two for JP
\* and CALL, none for RET), and SP, the memories and the cartridge are as
\* they were.
C31_ConditionalBranchCycles ==
    [][ op' \in BranchOpcodes =>
          LET taken == ConditionHolds(op', flags)
              operands == IF op' \in JrOpcodes THEN 1
                          ELSE IF op' \in RetOpcodes THEN 0 ELSE 2
          IN  /\ taken =>
                    ret' = (IF op' \in JrOpcodes THEN 12
                            ELSE IF op' \in JpOpcodes THEN 16
                            ELSE IF op' \in CallOpcodes THEN 24 ELSE 20)
              /\ ~taken =>
                    /\ ret' = (IF op' \in JrOpcodes \union RetOpcodes THEN 8 ELSE 12)
                    /\ reg_pc' = (reg_pc + operands) % 65536
                    /\ reg_sp' = reg_sp
                    /\ memVars' = memVars
                    /\ ie_register' = ie_register
                    /\ mbcVars' = mbcVars ]_vars

\* C31 witness: CALL Z,a16 executed with Z clear and SP = 0 returned 12,
\* with PC past the two operand bytes.
C31_Witness ==
    /\ op = "Call_Z_a16"
    /\ ~flags.z
    /\ ret = 12
    /\ reg_pc = 258
    /\ reg_sp = 0

\* A conditional RET was taken: it returned 20 and popped PC from the image.
C31_TakenReached ==
    /\ op = "Ret_C"
    /\ flags.c
    /\ ret = 20
    /\ reg_sp = 2
    /\ reg_pc = 256 * ((rom_seed + 1) % 256) + rom_seed


--------------------------------------------------------------------------
(* TAC, TIMA, TMA and DIV written over the bus at every phase of the TIMA  *)
(* accumulator.                                                            *)

\* T-cycles ticked in a behaviour, and the T-cycles during which the ticks
\* of 12 cycles and the ticks of 60 cycles are taken
MaxTacCycles == 1100
MaxTacShort == 24
MaxTacMedium == 120

\* Values written to TAC: the eight values of bits 2-0, and values with the
\* unused bits set
TacWrites == 0..7 \union {248, 253, 255}

\* Writes to DIV, TIMA and TMA: <<address, value>>
TacOtherWrites == { <<65284, 0>>, <<65285, 255>>, <<65286, 255>> }

\* Cycle counts passed to Interconnect::step
TacCycles == {12, 60, 1000}

\* Interconnect::step(cycles): short ticks first, long ones up to the horizon
TacTickOp(cycles) ==
    /\ elapsed + cycles <= MaxTacCycles
    /\ cycles <= 12 => elapsed < MaxTacShort
    /\ cycles = 60 => elapsed < MaxTacMedium
    /\ BusStep(cycles)

TacNext ==
    \/ \E v \in TacWrites : BusWriteOp(65287, v)
    \/ \E w \in TacOtherWrites : elapsed < MaxTacShort /\ BusWriteOp(w[1], w[2])
    \/ \E c \in TacCycles : TacTickOp(c)

SpecTac == InitAll /\ [][TacNext]_vars

\* C32: a write of v to 0xFF07 leaves the TIMA accumulator at 0 when the
\* two low bits of v differ from the two low bits of TAC, and leaves it as
\* it was when they are equal, whatever bit 2 and the upper bits of v are.
C32_TacWriteResetsOnClockChange ==
    [][ (op' = "write" /\ arg'[1] = 65287) =>
          tima_counter' = (IF arg'[2] % 4 # tac % 4 THEN 0 ELSE tima_counter) ]_vars

\* C32 witness: a write of 0x03 to TAC (timer off, clock-select 11) has
\* left a non-zero accumulator in place.
C32_Witness ==
    /\ op = "write"
    /\ arg = <<65287, 3>>
    /\ tac = 3
    /\ tima_counter = 72

\* C38: the TIMA accumulator is below the period TIMER_CLOCKS selects for
\* bits 1-0 of TAC (1024, 16, 64, 256).
C38_AccumulatorBelowThreshold ==
    tima_counter < (CASE tac % 4 = 0 -> 1024
                      [] tac % 4 = 1 -> 16
                      [] tac % 4 = 2 -> 64
                      [] tac % 4 = 3 -> 256)

\* C38 witness: with clock-select 00 enabled from power-on, the tick that
\* completed 1024 T-cycles left the accumulator at 0 and TIMA at 1.
C38_Witness ==
    /\ op = "tick"
    /\ arg = <<65287, 4>>
    /\ tac = 4
    /\ elapsed = 1024
    /\ div_counter = 1024
    /\ tima_counter = 0
    /\ tima = 1


--------------------------------------------------------------------------
(* STAT and LYC written and STAT read over the bus at every mode of every  *)
(* scanline.                                                               *)

\* Values written to STAT and to LYC
StatWrites == {0, 64, 135, 255}
LycWrites == {1, 144}

\* The scanlines whose modes are stepped through one by one
StatLines == {0, 1, 144}

\* Cycle counts passed to Ppu::step: on a line of StatLines the lengths of
\* OamScan, Drawing and HBlank, and on every line the scanlines up to the
\* next line of StatLines
StatCycles ==
    (IF ly \in StatLines
     THEN {OAM_SCAN_END, DRAWING_END - OAM_SCAN_END, CYCLES_PER_SCANLINE - DRAWING_END}
     ELSE {})
    \cup {CYCLES_PER_SCANLINE * k : k \in {j \in 1..SCANLINES_PER_FRAME :
             /\ (ly + j) % SCANLINES_PER_FRAME \in StatLines
             /\ \A i \in 1..(j - 1) : (ly + i) % SCANLINES_PER_FRAME \notin StatLines}}

StatNext ==
    \/ \E v \in StatWrites : BusWriteOp(65345, v)
    \/ \E v \in LycWrites : BusWriteOp(65349, v)
    \/ \E c \in StatCycles : PpuStepOp(c)
    \/ BusReadOp(65345)

SpecStat == InitAll /\ [][StatNext]_vars

C33_WriteReached ==
    /\ op = "write"
    /\ arg = <<65345, 255>>
    /\ mode = VBlank
    /\ BusRead(Bus, 65345) = 121


--------------------------------------------------------------------------
(* Scanlines rendered by Ppu::step after a program has loaded tiles,       *)
(* sprites and the PPU registers.                                          *)

\* The 16 bytes of tile t, every row holding byte1 and byte2
TileRows(t, byte1, byte2) ==
    [i \in {16 * t + k : k \in {j \in 0..15 : (IF j % 2 = 0 THEN byte1 ELSE byte2) # 0}} |->
        IF i % 2 = 0 THEN byte1 ELSE byte2]

\* The OAM bytes of a table of entries <<Y, X, tile, attributes>>
OamTable(entries) ==
    [i \in {k \in 0..(4 * Len(entries) - 1) : entries[(k \div 4) + 1][(k % 4) + 1] # 0} |->
        entries[(i \div 4) + 1][(i % 4) + 1]]

\* Interconnect::write called for every byte of VRAM and OAM a scene holds
\* (each stores one byte at its own index) and for the PPU registers
SceneLoaded(b, s) ==
    LET b0 == [b EXCEPT !.vram = s.vram, !.oam = s.oam]
        b1 == BusWrite(b0, 65346, s.scy)
        b2 == BusWrite(b1, 65347, s.scx)
        b3 == BusWrite(b2, 65351, s.bgp)
        b4 == BusWrite(b3, 65352, s.obp0)
        b5 == BusWrite(b4, 65353, s.obp1)
        b6 == BusWrite(b5, 65354, s.wy)
        b7 == BusWrite(b6, 65355, s.wx)
    IN  BusWrite(b7, 65344, s.lcdc)

\* The writes that load a scene, made once, before any other write
LoadSceneOp(s) ==
    /\ DOMAIN vram = {}
    /\ DOMAIN oam = {}
    /\ SetBus(SceneLoaded(Bus, s))
    /\ op' = "write"
    /\ arg' = <<65344, s.lcdc>>
    /\ ret' = 0
    /\ UNCHANGED <<busFixed, cpuVars, instruction_count, prog, cpu_cycles, elapsed,
                   frame_clock, passed, since, halt_ret, ei_at>>

\* Tiles 1, 2 and 3 filled with colour index 1, 2 and 3, tile 4 with colour
\* index 1 on its left half, tile 5 with colour index 2 on its right half
SpriteTiles ==
    TileRows(1, 255, 0) @@ TileRows(2, 0, 255) @@ TileRows(3, 255, 255)
    @@ TileRows(4, 240, 0) @@ TileRows(5, 0, 15)

\* The same with the tile map entry of the top left corner set to tile 3
SpriteTilesOverBg == SpriteTiles @@ [i \in {6144} |-> 3]

\* Ten entries side by side on the rows 0..7, from X = 8 on
TenSprites == [i \in 1..10 |-> <<16, 8 * i, 1, 0>>]

\* Tables of OAM entries <<Y, X, tile, attributes>>; the entries not listed
\* are zero
SpriteTables ==
    { <<<<16, 8, 1, 0>>, <<16, 12, 2, 0>>>>,
      <<<<16, 12, 2, 0>>, <<16, 8, 1, 0>>>>,
      <<<<16, 8, 1, 0>>, <<16, 8, 2, 0>>>>,
      <<<<16, 8, 4, 0>>, <<16, 8, 2, 0>>>>,
      <<<<16, 8, 4, 32>>, <<16, 10, 5, 16>>, <<17, 6, 2, 64>>>>,
      <<<<16, 8, 1, 128>>, <<16, 12, 2, 0>>>>,
      <<<<16, 8, 1, 128>>, <<16, 8, 2, 128>>>>,
      <<<<16, 4, 1, 0>>, <<16, 165, 2, 0>>, <<9, 163, 1, 0>>>>,
      TenSprites \o <<<<16, 12, 2, 0>>>>,
      TenSprites \o <<<<16, 100, 2, 0>>, <<16, 84, 2, 0>>>> }

\* The scenes: a table, sprites of 8 or 16 rows, over a blank background,
\* over no background and over a background whose top left tile is opaque
SpriteScenes ==
    { [vram |-> v, oam |-> OamTable(t), lcdc |-> l, scy |-> 0, scx |-> 0, bgp |-> 252,
       obp0 |-> 228, obp1 |-> 27, wy |-> 0, wx |-> 0] :
         v \in {SpriteTiles, SpriteTilesOverBg}, t \in SpriteTables, l \in {147, 151, 130} }

\* Scanlines rendered in a behaviour
MaxSpriteLines == 2

SpritesNext ==
    \/ \E s \in SpriteScenes : LoadSceneOp(s)
    \/ \E c \in {CYCLES_PER_SCANLINE, 2 * CYCLES_PER_SCANLINE, DRAWING_END} :
          /\ (scanline_cycles + c) \div CYCLES_PER_SCANLINE + ly <= MaxSpriteLines
          /\ PpuStepOp(c)

SpecSprites == InitAll /\ [][SpritesNext]_vars


\* The lines rendered by the step just taken (no step of SpecSprites passes
\* the end of the frame)
LinesJustRendered == {l \in 0..(SCREEN_HEIGHT - 1) : l >= ly /\ l < ly'}

\* The first ten OAM entries, in OAM order, whose rows include the line
FirstTenOnLine(line) ==
    LET height == IF (lcdc \div 4) % 2 = 1 THEN 16 ELSE 8
        top(i) == VecGet(oam, 4 * i, 0) - 16
        on == {i \in 0..39 : line >= top(i) /\ line < top(i) + height}
    IN  {i \in on : Cardinality({j \in on : j < i}) < 10}

\* What the pixel x of the line shows, by the rule of the claim: s holds
\* the fetched entries of FirstTenOnLine, under is the pixel of the
\* background and the window, shown the pixel in the framebuffer.  Where no
\* entry is opaque the pixel is under; otherwise it is the pixel of the
\* opaque entry with the lowest X (the lowest index among equal X), except
\* that under shows where that entry has BG priority and under is not
\* shade 0.
ShowsLowestX(s, x, under, shown) ==
    LET opaque == {i \in DOMAIN s : SpriteColorIndex(s[i], x) # 0}
        w == CHOOSE i \in opaque :
                 \A j \in opaque : \/ s[i].sprite_x < s[j].sprite_x
                                   \/ s[i].sprite_x = s[j].sprite_x /\ i <= j
    IN  IF opaque = {} THEN shown = under
        ELSE IF (s[w].attributes \div 128) % 2 = 1 /\ under # 0 THEN shown = under
        ELSE shown = PaletteColor(s[w].palette, SpriteColorIndex(s[w], x))

\* ShowsLowestX on every pixel of every line the step rendered, the pixels
\* in `where` only
SpritePriority(where(_, _)) ==
    (op' = "ppu_step" /\ lcd_enabled(lcdc) /\ sprites_enabled(lcdc)) =>
        \A line \in LinesJustRendered :
            \E s \in {[i \in FirstTenOnLine(line) |-> SpriteFetched(Bus, line, i)]} :
            \E under \in {render_scanline([Bus EXCEPT !.lcdc = lcdc - 2], line)} :
                \A x \in 0..(SCREEN_WIDTH - 1) :
                    where(s, x) =>
                        ShowsLowestX(s, x, under[x],
                                     VecGet(framebuffer', line * SCREEN_WIDTH + x, 0))

AnyPixel(s, x) == TRUE

\* No entry opaque at the pixel x has BG priority
NoBgPriorityAt(s, x) ==
    \A i \in DOMAIN s : SpriteColorIndex(s[i], x) # 0 => s[i].attributes < 128

\* C34: on every line rendered with sprites enabled, only the first ten OAM
\* entries whose rows include the line are drawn, and a pixel where entries
\* drawn are opaque shows the one with the lowest X, the lowest OAM index
\* among equal X (an entry with BG priority showing only where the
\* background pixel is shade 0).
C34_LowestXSpriteShown == [][SpritePriority(AnyPixel)]_vars

\* The same on the pixels where no opaque entry has BG priority
SpritePriorityWithoutBgPriority == [][SpritePriority(NoBgPriorityAt)]_vars

\* A line was rendered where an entry with BG priority and a higher entry
\* without it are both opaque over a background of shade 0, and the pixel
\* shows the higher entry.
C34_Reached ==
    /\ op = "ppu_step"
    /\ ly = 1
    /\ lcdc = 147
    /\ VecGet(oam, 3, 0) = 128
    /\ VecGet(oam, 5, 0) = 12
    /\ VecGet(framebuffer, 3, 0) = 1
    /\ VecGet(framebuffer, 4, 0) = 2


--------------------------------------------------------------------------
(* Interrupts dispatched between instructions that set and clear IME, with *)
(* IF and IE written at any time.                                          *)

\* Instructions executed in a behaviour
MaxIsrSteps == 3

IsrOpcodes == {"Ei", "Di", "Reti", "Nop", "Halt"}

IsrNext ==
    \/ \E o \in IsrOpcodes : instruction_count < MaxIsrSteps /\ ExecuteOpcodeOp(o)
    \/ HandleInterruptsOp
    \/ \E v \in IfVals : WriteIfOp(v)
    \/ \E v \in IeVals : WriteIeOp(v)

SpecIsr == InitAll /\ [][IsrNext]_vars

\* C35: handle_interrupts returns from a dispatch with IME clear and no
\* enable pending; and while IME is clear and no enable is pending, every
\* step other than the execution of EI or RETI leaves them so, and a call
\* of handle_interrupts returns 0 with PC, SP and IF as they were, whatever
\* IF and IE hold.
C35_NoDispatchUntilEiOrReti ==
    [][ /\ (op' = "handle_interrupts" /\ ret' = 20) => (~ime' /\ ~ime_pending')
        /\ (~ime /\ ~ime_pending /\ op' \notin {"Ei", "Reti"}) =>
              /\ ~ime' /\ ~ime_pending'
              /\ op' = "handle_interrupts" =>
                    /\ ret' = 0
                    /\ reg_pc' = reg_pc
                    /\ reg_sp' = reg_sp
                    /\ if_register' = if_register ]_vars

\* C35 witness: after a dispatch to 0x0040 (PC at the vector, the return
\* address pushed, no instruction executed since), handle_interrupts was
\* called with the timer interrupt pending and enabled, and returned 0.
C35_Witness ==
    /\ op = "handle_interrupts"
    /\ ret = 0
    /\ reg_pc = 64
    /\ reg_sp = 65532
    /\ ~ime
    /\ Bit(pending_interrupts, 2) = 1


--------------------------------------------------------------------------
(* A halted CPU under GameBoy::step, with the bus ticked while it is      *)
(* halted and IE written over the bus.                                    *)

\* Cycles ticked while the CPU is halted
MaxHaltCycles == 140448

HaltCycles == {CYCLES_PER_SCANLINE, VBlankEntryCycle, CYCLES_PER_FRAME}

\* GameBoy::new over a cartridge holding HALT; NOP; NOP; NOP
InitHalt ==
    /\ PpuInit
    /\ TimerInit
    /\ IntInit
    /\ MbcInit(32768, 0, 0, FALSE)
    /\ CpuInit(<<"Halt", "Nop", "Nop", "Nop">>)
    /\ HistoryInit

\* Interconnect::step(cycles) while the CPU is halted
HaltTickOp(cycles) ==
    /\ halted
    /\ elapsed + cycles <= MaxHaltCycles
    /\ BusStep(cycles)

HaltNext ==
    \/ GameBoyStep
    \/ \E c \in HaltCycles : HaltTickOp(c)
    \/ WriteIeOp(1)

SpecHalt == InitHalt /\ [][HaltNext]_vars

\* C36: a CPU halted with the LCD enabled and IE bit 0 set is no longer
\* halted at the CPU step that follows a frame (70,224 cycles) of ticks.
C36_HaltedCpuWakesWithinFrame ==
    ~ /\ halted
      /\ lcd_enabled(lcdc)
      /\ Bit(ie_register, 0) = 1
      /\ elapsed >= CYCLES_PER_FRAME
      /\ op = "step"

\* The VBlank interrupt is pending once a frame has been ticked with the LCD
\* enabled and IE bit 0 set.
C36_VBlankPendingWithinFrame ==
    (lcd_enabled(lcdc) /\ Bit(ie_register, 0) = 1 /\ elapsed >= CYCLES_PER_FRAME)
        => Bit(pending_interrupts, 0) = 1


--------------------------------------------------------------------------
(* Interconnect::step called once with a + b cycles and twice with a and  *)
(* then b cycles, from every state reached by ticks and writes of LCDC,   *)
(* TAC, TMA and TIMA.                                                     *)

\* Cycles ticked in a behaviour, and the points up to which the short and
\* the medium ticks are taken
MaxSplitCycles == 140000
MaxSplitShort == 6
MaxSplitMedium == 900

\* Most passes of the TIMA loop in one tick
MaxTimaPasses == 70

\* The tick stays within the passes modelled
SplitShort(cycles) ==
    And(tac, 4) = 0 \/ cycles \div TimerClock(And(tac, 3)) < MaxTimaPasses

SplitWrites == {<<65344, 17>>, <<65344, 145>>, <<65287, 4>>, <<65287, 5>>,
                <<65286, 250>>, <<65285, 255>>}

\* Cycle counts of the ticks taken in a behaviour
SplitTicks == {3, 453, 65530}

\* Cycle counts a and b of the ticks compared
SplitCycles == {1, 455, 1024, 4561, 65535}

SplitTickOp(cycles) ==
    /\ elapsed + cycles <= MaxSplitCycles
    /\ cycles <= 3 => elapsed < MaxSplitShort
    /\ cycles = 453 => elapsed < MaxSplitMedium
    /\ SplitShort(cycles)
    /\ BusStep(cycles)

SplitNext ==
    \/ \E w \in SplitWrites : elapsed < MaxSplitShort /\ BusWriteOp(w[1], w[2])
    \/ \E c \in SplitTicks : SplitTickOp(c)

SpecSplit == InitAll /\ [][SplitNext]_vars

\* The part of the state that Interconnect::step works on
TickState ==
    [ly |-> ly, scanline_cycles |-> scanline_cycles, mode |-> mode,
     frame_ready |-> frame_ready, div_counter |-> div_counter, tima |-> tima,
     tima_counter |-> tima_counter, if_register |-> if_register]

\* Interconnect::step on the state s, under the LCDC, TAC and TMA held
Ticked(s, cycles) ==
    LET r == ScanlineLoop(s.ly, s.scanline_cycles + cycles)
        on == lcd_enabled(lcdc)
        t == IF And(tac, 4) # 0
             THEN TimaLoop(s.tima_counter + cycles, s.tima, FALSE, TimerClock(And(tac, 3)))
             ELSE [tima_counter |-> s.tima_counter, tima |-> s.tima,
                   interrupt_requested |-> FALSE]
    IN  [ly |-> IF on THEN r.ly ELSE s.ly,
         scanline_cycles |-> IF on THEN r.scanline_cycles ELSE s.scanline_cycles,
         mode |-> IF on THEN update_mode(r.ly, r.scanline_cycles) ELSE s.mode,
         frame_ready |-> (s.frame_ready \/ (on /\ r.entered_vblank)),
         div_counter |-> (s.div_counter + (cycles % 65536)) % 65536,
         tima |-> t.tima,
         tima_counter |-> t.tima_counter,
         if_register |-> IfAfterStep(s.if_register, t.interrupt_requested,
                                     on /\ r.entered_vblank)]

\* C37: Interconnect::step(a) followed by Interconnect::step(b) leaves the
\* same LY, scanline accumulator, mode, frame_ready, DIV counter, TIMA, TIMA
\* accumulator and IF as Interconnect::step(a + b), from every state and for
\* every a and b, where the step is the one the bus takes.
C37_TickIsAdditive ==
    [][ /\ op' = "tick" => TickState' = Ticked(TickState, elapsed' - elapsed)
        /\ \A a \in SplitCycles, b \in SplitCycles :
              SplitShort(a + b) =>
              Ticked(Ticked(TickState, a), b) = Ticked(TickState, a + b) ]_vars

\* C37 witness: a tick of 65,530 cycles followed by one of 453 has entered
\* VBlank and carried DIV and TIMA past their wrap, which a single tick of
\* their sum does too.
C37_Witness ==
    /\ op = "tick"
    /\ elapsed = 65983
    /\ ly = 144
    /\ frame_ready
    /\ Bit(if_register, 0) = 1
    /\ Bit(if_register, 2) = 1
    /\ tac = 4
    /\ tma = 250
    /\ div_counter = 447


--------------------------------------------------------------------------
(* The LCD disabled and re-enabled over the bus: the PPU is stepped to a  *)
(* position, LCDC bit 7 is cleared and set again by writes to 0xFF40, and *)
(* the bus is ticked from there.                                          *)

\* Cycles ticked after the re-enable
MaxReenableCycles == 66120

\* Cycle counts that take the PPU from (0, 0) to the position at which the
\* LCD is disabled
ReenableFrom == {100, 4567, 30000, 65664, 67947, 70223}

\* LCDC values written to disable and to re-enable
LcdcOff == {17, 0}
LcdcOn == {145, 128}

\* No write has been made yet
Running == arg = <<0, 0>>

\* The last write was the one that re-enabled the LCD
Reenabled == arg[1] = 65344 /\ lcd_enabled(arg[2])

\* Cycle counts ticked after the re-enable: whole scanlines, the count up
\* to the last scanline before VBlank, and short counts around the end of a
\* scanline
ReenableCycles ==
    {CYCLES_PER_SCANLINE}
    \cup (IF scanline_cycles = 0 THEN {452, 143 * CYCLES_PER_SCANLINE, VBlankEntryCycle}
          ELSE {})
    \cup (IF scanline_cycles >= 448 THEN {4} ELSE {})

ReenableNext ==
    \/ \E c \in ReenableFrom :
          Running /\ ly = 0 /\ scanline_cycles = 0 /\ ~frame_ready /\ PpuStepOp(c)
    \/ ~Reenabled /\ ClearFrameReadyOp
    \/ \E v \in LcdcOff : Running /\ BusWriteOp(65344, v)
    \/ ~lcd_enabled(lcdc) /\ PpuStepOp(CYCLES_PER_FRAME)
    \/ \E v \in LcdcOn : ~lcd_enabled(lcdc) /\ BusWriteOp(65344, v)
    \/ \E c \in ReenableCycles :
          Reenabled /\ elapsed + c <= MaxReenableCycles /\ BusStep(c)

SpecReenable == InitAll /\ [][ReenableNext]_vars

\* C39: the write that re-enables a disabled LCD leaves LY = 0 and the
\* accumulator = 0; a tick that ends less than 144 * 456 cycles after the
\* re-enable leaves frame_ready and IF bit 0 as they were, and the tick that
\* reaches 144 * 456 cycles sets both.
C39_VBlankAfterReenable ==
    [][ /\ (op' = "write" /\ ~lcd_enabled(lcdc) /\ lcd_enabled(lcdc')) =>
              (ly' = 0 /\ scanline_cycles' = 0)
        /\ (op' = "tick" /\ Reenabled) =>
              /\ elapsed' < 144 * 456 =>
                    /\ frame_ready' = frame_ready
                    /\ Bit(if_register', 0) = Bit(if_register, 0)
              /\ (elapsed < 144 * 456 /\ elapsed' >= 144 * 456) =>
                    /\ frame_ready'
                    /\ Bit(if_register', 0) = 1
                    /\ ly' = VBLANK_START + (elapsed' - 144 * 456) \div CYCLES_PER_SCANLINE ]_vars

\* C39 witness: the LCD was re-enabled and 65,660 cycles later no VBlank
\* entry has happened: the PPU is at the end of line 143 with frame_ready
\* and IF bit 0 clear.
C39_Witness ==
    /\ op = "tick"
    /\ Reenabled
    /\ elapsed = 65660
    /\ ly = 143
    /\ scanline_cycles = 452
    /\ ~frame_ready
    /\ Bit(if_register, 0) = 0

\* The tick that completes 65,664 cycles after the re-enable has entered
\* VBlank.
C39_EntryReached ==
    /\ op = "tick"
    /\ Reenabled
    /\ elapsed = 65664
    /\ ly = 144
    /\ frame_ready
    /\ Bit(if_register, 0) = 1


--------------------------------------------------------------------------
(* The indexes render_scanline uses on VRAM, OAM and the framebuffer, on  *)
(* scenes with extreme scroll, window and sprite positions and extreme    *)
(* tile indexes, rendered at the top and at the bottom of the screen.     *)

\* Lengths of vram and oam (Interconnect::new) and of the framebuffer
VRAM_LEN == 8192
OAM_LEN == 160
FRAMEBUFFER_LEN == SCREEN_WIDTH * SCREEN_HEIGHT

\* Scanlines rendered from the top of the screen
MaxRenderLines == 2

\* Both tile maps filled with one tile index
MapFilled(t) == [i \in 6144..8191 |-> t]

\* All 40 OAM entries equal to <<Y, X, tile, attributes>>
OamFilled(e) == OamTable([i \in 1..40 |-> e])

RenderScenes ==
    { [vram |-> MapFilled(t), oam |-> OamFilled(e), lcdc |-> l, scy |-> sc[1],
       scx |-> sc[2], bgp |-> 228, obp0 |-> 228, obp1 |-> 27, wy |-> w[1], wx |-> w[2]] :
         t \in {127, 128, 255},
         e \in {<<16, 8, 255, 0>>, <<1, 0, 255, 64>>, <<159, 167, 254, 96>>,
                <<152, 255, 255, 192>>},
         l \in {255, 235},
         sc \in {<<255, 255>>, <<113, 97>>},
         w \in {<<0, 0>>, <<143, 166>>, <<0, 167>>, <<144, 255>>} }

RenderNext ==
    \/ \E s \in RenderScenes : LoadSceneOp(s)
    \/ /\ DOMAIN vram = {}
       /\ ly = 0 /\ scanline_cycles = 0
       /\ PpuStepOp((SCREEN_HEIGHT - 1) * CYCLES_PER_SCANLINE)
    \/ /\ DOMAIN vram # {}
       /\ ly < MaxRenderLines \/ ly = SCREEN_HEIGHT - 1
       /\ PpuStepOp(CYCLES_PER_SCANLINE)

SpecRender == InitAll /\ [][RenderNext]_vars

\* The indexes of vram read by render_bg_scanline on the line
BgReads(b, line) ==
    UNION {{BgMapAddr(b, line, x), BgDataAddr(b, line, x), BgDataAddr(b, line, x) + 1} :
              x \in 0..(SCREEN_WIDTH - 1)}

\* The indexes of vram read by render_window_scanline on the line
WindowReads(b, line) ==
    UNION {{WindowMapAddr(b, line, x), WindowDataAddr(b, line, x),
            WindowDataAddr(b, line, x) + 1} :
              x \in {x \in 0..(SCREEN_WIDTH - 1) : WindowCovers(b, line, x)}}

\* The indexes of vram read by render_sprites_scanline on the line
SpriteReads(b, line) ==
    UNION {{SpriteDataAddr(b, line, i), SpriteDataAddr(b, line, i) + 1} :
              i \in SpritesCollected(b, line)}

\* The indexes of vram read by render_scanline on the line
VramReads(b, line) ==
    (IF bg_enabled(b.lcdc) THEN BgReads(b, line) ELSE {})
    \cup (IF window_enabled(b.lcdc) THEN WindowReads(b, line) ELSE {})
    \cup (IF sprites_enabled(b.lcdc) THEN SpriteReads(b, line) ELSE {})

\* The indexes of oam read by render_sprites_scanline on the line: Y and X
\* of every entry up to the one at which the collecting loop stops, tile
\* and attributes of the entries collected
OamReads(b, line) ==
    LET c == SpritesCollected(b, line)
        scanned == {i \in 0..39 : Cardinality({j \in c : j < i}) < 10}
    IN  IF sprites_enabled(b.lcdc)
        THEN UNION {{i * 4, i * 4 + 1} : i \in scanned}
             \cup UNION {{i * 4 + 2, i * 4 + 3} : i \in c}
        ELSE {}

\* The indexes of the framebuffer written by render_scanline on the line
FramebufferWrites(b, line) ==
    {line * SCREEN_WIDTH + x : x \in 0..(SCREEN_WIDTH - 1)}
    \cup UNION {{line * SCREEN_WIDTH + SpriteX(b, i) + pixel_x :
                    pixel_x \in {p \in 0..7 : /\ SpriteX(b, i) + p >= 0
                                              /\ SpriteX(b, i) + p < SCREEN_WIDTH}} :
                i \in SpritesCollected(b, line)}

\* C40: every scanline a step renders reads vram at indexes 0..0x1FFF only
\* and oam at indexes 0..159 only, writes the framebuffer at indexes
\* 0..(160*144-1) only, and takes the row of a sprite, a value that is
\* converted to usize, inside the sprite.
C40_RenderIndexesInBounds ==
    [][ \A line \in LinesJustRendered :
           /\ VramReads(Bus, line) \subseteq 0..(VRAM_LEN - 1)
           /\ OamReads(Bus, line) \subseteq 0..(OAM_LEN - 1)
           /\ FramebufferWrites(Bus, line) \subseteq 0..(FRAMEBUFFER_LEN - 1)
           /\ \A i \in SpritesCollected(Bus, line) :
                 SpriteRow(Bus, line, i) \in 0..(SpriteHeight(Bus) - 1) ]_vars

\* C40 witness: line 143 was rendered with SCY = SCX = 255, the window on
\* its last line and last column, the tile maps full of index 255 and ten
\* flipped sprites of 16 rows on the line.
C40_Witness ==
    /\ op = "ppu_step"
    /\ ly = SCREEN_HEIGHT
    /\ lcdc = 255
    /\ ppu_regs.scy = 255 /\ ppu_regs.scx = 255
    /\ ppu_regs.wy = 143 /\ ppu_regs.wx = 166
    /\ VecGet(vram, 8191, 0) = 255
    /\ VecGet(oam, 0, 0) = 152
    /\ Cardinality(SpritesCollected(Bus, 143)) = 10

==========================================================================
